---- MODULE Spec2Model ----
(***************************************************************************)
(* Model of the record-returning argument parser o::parse_arguments of     *)
(* src/src/optrone.cpp together with the helpers it calls.                 *)
(*                                                                         *)
(* A std::string is a sequence of one-character strings.  A pointer to a   *)
(* template is its index in the forest's template table, 0 is nullptr.     *)
(* Positions and counters are zero-based as in the source; element k of a  *)
(* std::vector v is v[k + 1] here.                                         *)
(***************************************************************************)
EXTENDS Integers, Sequences, FiniteSets, TLC

\* Longest argument list given to the parser.
MaxArgs == 3

\* Largest number of declared parameters of the parametrised templates.
MaxParams == 2

\* std::size_t arithmetic wraps; every length of the model is far below it.
SizeModulus == 1073741824

npos == SizeModulus - 1

nullptr == 0

(***************************************************************************)
(* Strings                                                                 *)
(***************************************************************************)
starts_with(s, prefix) ==
    /\ Len(s) >= Len(prefix)
    /\ SubSeq(s, 1, Len(prefix)) = prefix

ends_with(s, suffix) ==
    /\ Len(s) >= Len(suffix)
    /\ SubSeq(s, Len(s) - Len(suffix) + 1, Len(s)) = suffix

\* std::string::substr(pos): the caller checks SubstrThrows first.
substr(s, pos) == SubSeq(s, pos + 1, Len(s))

substr_n(s, pos, n) == SubSeq(s, pos + 1, pos + n)

SubstrThrows(s, pos) == pos > Len(s)

find_first_of(s, c) ==
    LET hits == {k \in 1..Len(s) : s[k] = c}
    IN  IF hits = {} THEN npos
        ELSE (CHOOSE k \in hits : \A h \in hits : k <= h) - 1

to_lower(c) ==
    CASE c = "A" -> "a"
      [] c = "N" -> "n"
      [] c = "X" -> "x"
      [] c = "Y" -> "y"
      [] OTHER -> c

\* sm::is_equal_ins on two strings.
is_equal_ins(a, b) ==
    /\ Len(a) = Len(b)
    /\ \A k \in 1..Len(a) : to_lower(a[k]) = to_lower(b[k])

\* sm::is_equal_ins on two characters.
is_equal_ins_char(a, b) == to_lower(a) = to_lower(b)

Ellipsis == <<".", ".", ".">>

(***************************************************************************)
(* include/optrone.hpp                                                     *)
(***************************************************************************)
get_argument_type(argument) ==
    IF Len(argument) = 0 THEN "empty"
    ELSE IF starts_with(argument, <<"-", "-">>)
         THEN (IF Len(argument) > 2 THEN "long_option" ELSE "double_hyphen")
    ELSE IF starts_with(argument, <<"-">>)
         THEN (IF Len(argument) > 1 THEN "short_option" ELSE "single_hyphen")
    ELSE IF starts_with(argument, <<"/">>) THEN "microsoft_switch"
    ELSE "regular_argument"

is_parameter_variadic(parameter) ==
    IF parameter = Ellipsis THEN "zero_or_more"
    ELSE IF ends_with(parameter, Ellipsis) THEN "one_or_more"
    ELSE "not_variadic"

squiggled_text(text, position, size) ==
    [text |-> text, position |-> position, size |-> size]

meta_argument(original, modified, arg_type) ==
    [original |-> original, modified |-> modified, arg_type |-> arg_type]

parsed_argument(argument, valid, is_parsed, ref_option, ref_subcommand, values) ==
    [argument |-> argument, valid |-> valid, is_parsed |-> is_parsed,
     ref_option |-> ref_option, ref_subcommand |-> ref_subcommand,
     values |-> values]

option_template(long_names, short_names, parameters, defaults_from_back) ==
    [long_names |-> long_names, short_names |-> short_names,
     parameters |-> parameters, defaults_from_back |-> defaults_from_back]

subcommand_template(names, parameters, defaults_from_back, subs, opts) ==
    [names |-> names, parameters |-> parameters,
     defaults_from_back |-> defaults_from_back, subcommands |-> subs,
     subcommand_options |-> opts]

(***************************************************************************)
(* Sanity checks of the template forest.  f.opt and f.sub are the template *)
(* objects, f.options and f.subcommands the two lists of pointers given to *)
(* parse_arguments.                                                        *)
(***************************************************************************)
NonLastVariadic(parameters) ==
    \E j \in 1..(Len(parameters) - 1) :
        is_parameter_variadic(parameters[j]) /= "not_variadic"

LastVariadic(parameters) ==
    /\ parameters /= <<>>
    /\ is_parameter_variadic(parameters[Len(parameters)]) /= "not_variadic"

\* TRUE when options_sanity_checker returns without throwing.
options_sanity_checker(f, options) ==
    \A k \in 1..Len(options) :
        /\ options[k] /= nullptr
        /\ LET option == f.opt[options[k]]
           IN  /\ ~NonLastVariadic(option.parameters)
               /\ ~(Len(option.defaults_from_back) > Len(option.parameters))
               /\ ~(/\ option.defaults_from_back /= <<>>
                    /\ LastVariadic(option.parameters))

\* TRUE when subcommands_sanity_checker returns without throwing.
RECURSIVE subcommands_sanity_checker(_, _)
subcommands_sanity_checker(f, subcommands) ==
    \A k \in 1..Len(subcommands) :
        /\ subcommands[k] /= nullptr
        /\ LET subcommand == f.sub[subcommands[k]]
           IN  /\ ~NonLastVariadic(subcommand.parameters)
               /\ ~(Len(subcommand.defaults_from_back)
                      > Len(subcommand.parameters))
               /\ ~(/\ subcommand.defaults_from_back /= <<>>
                    /\ LastVariadic(subcommand.parameters))
               /\ ~(/\ subcommand.subcommands /= <<>>
                    /\ LastVariadic(subcommand.parameters))
               /\ options_sanity_checker(f, subcommand.subcommand_options)
               /\ subcommands_sanity_checker(f, subcommand.subcommands)

(***************************************************************************)
(* Matching                                                                *)
(***************************************************************************)
\* The element of a pointer list the matching loops return: the one at the
\* least of the indices that hit, or nullptr when none does.
FirstHit(list, hits) ==
    IF hits = {} THEN nullptr
    ELSE list[CHOOSE k \in hits : \A h \in hits : k <= h]

match_long_names(f, options, long_name, switch_ins) ==
    FirstHit(options,
        {k \in 1..Len(options) :
            \E n \in 1..Len(f.opt[options[k]].long_names) :
                \/ f.opt[options[k]].long_names[n] = long_name
                \/ /\ switch_ins
                   /\ is_equal_ins(f.opt[options[k]].long_names[n],
                                   long_name)})

match_short_names(f, options, short_name, switch_ins) ==
    FirstHit(options,
        {k \in 1..Len(options) :
            \E n \in 1..Len(f.opt[options[k]].short_names) :
                \/ f.opt[options[k]].short_names[n] = short_name
                \/ /\ switch_ins
                   /\ is_equal_ins_char(f.opt[options[k]].short_names[n],
                                        short_name)})

\* arg.substr(2) and arg.substr(1) throw std::out_of_range on a short arg.
match_option_throws(arg, arg_type) ==
    \/ arg_type = "long_option" /\ SubstrThrows(arg, 2)
    \/ arg_type = "microsoft_switch" /\ SubstrThrows(arg, 1)

\* match_option trying the long names of a switch before the short names.
match_option_long_first(f, arg, arg_type, options, switch_ins) ==
    IF arg_type = "long_option"
    THEN match_long_names(f, options, substr(arg, 2), FALSE)
    ELSE IF arg_type = "short_option"
    THEN match_short_names(f, options, arg[2], FALSE)
    ELSE IF arg_type = "microsoft_switch"
    THEN LET long == match_long_names(f, options, substr(arg, 1), switch_ins)
         IN  IF long /= nullptr THEN long
             ELSE IF Len(arg) = 2
             THEN match_short_names(f, options, arg[2], switch_ins)
             ELSE nullptr
    ELSE nullptr

\* match_option passing switch_ins on for long and short options too.
match_option_ins_everywhere(f, arg, arg_type, options, switch_ins) ==
    IF arg_type = "long_option"
    THEN match_long_names(f, options, substr(arg, 2), switch_ins)
    ELSE IF arg_type = "short_option"
    THEN match_short_names(f, options, arg[2], switch_ins)
    ELSE IF arg_type = "microsoft_switch"
    THEN LET short == IF Len(arg) = 2
                      THEN match_short_names(f, options, arg[2], switch_ins)
                      ELSE nullptr
         IN  IF short /= nullptr THEN short
             ELSE match_long_names(f, options, substr(arg, 1), switch_ins)
    ELSE nullptr

match_option(f, arg, arg_type, options, switch_ins) ==
    IF arg_type = "long_option"
    THEN match_long_names(f, options, substr(arg, 2), FALSE)
    ELSE IF arg_type = "short_option"
    THEN match_short_names(f, options, arg[2], FALSE)
    ELSE IF arg_type = "microsoft_switch"
    THEN LET short == IF Len(arg) = 2
                      THEN match_short_names(f, options, arg[2], switch_ins)
                      ELSE nullptr
         IN  IF short /= nullptr THEN short
             ELSE match_long_names(f, options, substr(arg, 1), switch_ins)
    ELSE nullptr

\* match_subcommand returning the last subcommand of the list with the name.
match_subcommand_last(f, arg, current_subcommands) ==
    LET hits == {k \in 1..Len(current_subcommands) :
                    \E n \in 1..Len(f.sub[current_subcommands[k]].names) :
                        arg = f.sub[current_subcommands[k]].names[n]}
    IN  IF hits = {} THEN nullptr
        ELSE current_subcommands[CHOOSE k \in hits : \A h \in hits : k >= h]

match_subcommand(f, arg, current_subcommands) ==
    FirstHit(current_subcommands,
        {k \in 1..Len(current_subcommands) :
            \E n \in 1..Len(f.sub[current_subcommands[k]].names) :
                arg = f.sub[current_subcommands[k]].names[n]})

(***************************************************************************)
(* Value collection                                                        *)
(***************************************************************************)
\* IsValueType letting option-shaped tokens count as values.
IsValueType_with_options(arg_type) ==
    arg_type \in {"regular_argument", "single_hyphen", "short_option",
                  "long_option", "microsoft_switch"}

IsValueType(arg_type) ==
    arg_type = "regular_argument" \/ arg_type = "single_hyphen"

\* CollectLoop refusing a token spelled like the subcommand c.
RECURSIVE CollectLoop_not_subcommand(_, _, _, _, _)
CollectLoop_not_subcommand(i, meta_args, j, bounded, limit) ==
    IF /\ (~bounded \/ j < limit)
       /\ i + j + 1 < Len(meta_args)
       /\ meta_args[i + j + 2].arg_type \in {"regular_argument", "single_hyphen"}
       /\ meta_args[i + j + 2].modified.text /= <<"c">>
    THEN CollectLoop_not_subcommand(i, meta_args, j + 1, bounded, limit)
    ELSE j

\* The value loops of collect_values: j after the loop that started at j,
\* where limit bounds j in the non-variadic loop only.
RECURSIVE CollectLoop(_, _, _, _, _)
CollectLoop(i, meta_args, j, bounded, limit) ==
    IF /\ (~bounded \/ j < limit)
       /\ i + j + 1 < Len(meta_args)
       /\ IsValueType(meta_args[i + j + 2].arg_type)
    THEN CollectLoop(i, meta_args, j + 1, bounded, limit)
    ELSE j

\* cu::subordinate(container, first, last): the elements [first, last).
subordinate(container, first, last) == SubSeq(container, first + 1, last)

\* collect_values appending every default when a parameter is left unfilled.
collect_values_all_defaults(i, meta_args, parameters, default_args) ==
    LET is_variadic ==
            IF parameters /= <<>>
            THEN is_parameter_variadic(parameters[Len(parameters)])
            ELSE "not_variadic"
        j == CollectLoop(i, meta_args, 0, is_variadic = "not_variadic",
                         Len(parameters))
        explicit == [k \in 1..j |-> meta_args[i + k + 1].modified.text]
        collected_values ==
            IF is_variadic = "not_variadic" /\ j < Len(parameters)
            THEN explicit \o default_args
            ELSE explicit
        valid ==
            IF is_variadic = "not_variadic"
            THEN (IF Len(collected_values) /= Len(parameters)
                  THEN "not_enough_values" ELSE "valid")
            ELSE IF is_variadic = "one_or_more" /\ Len(collected_values) < 1
            THEN "not_enough_values"
            ELSE "valid"
    IN  [values |-> collected_values, valid |-> valid, i |-> i + j]

\* collect_values with the variadic loop bounded by the parameter count.
collect_values_bounded(i, meta_args, parameters, default_args) ==
    LET is_variadic ==
            IF parameters /= <<>>
            THEN is_parameter_variadic(parameters[Len(parameters)])
            ELSE "not_variadic"
        j == CollectLoop(i, meta_args, 0, TRUE, Len(parameters))
        explicit == [k \in 1..j |-> meta_args[i + k + 1].modified.text]
        defaults_provided ==
            (j - Len(parameters) + Len(default_args)) % SizeModulus
        first == defaults_provided
        last == Len(default_args)
        collected_values ==
            IF is_variadic = "not_variadic" /\ first < last
            THEN explicit \o subordinate(default_args, first, last)
            ELSE explicit
        valid ==
            IF is_variadic = "not_variadic"
            THEN (IF Len(collected_values) /= Len(parameters)
                  THEN "not_enough_values" ELSE "valid")
            ELSE IF is_variadic = "one_or_more" /\ Len(collected_values) < 1
            THEN "not_enough_values"
            ELSE "valid"
    IN  [values |-> collected_values, valid |-> valid, i |-> i + j]

\* collect_values without the final `i += j`.
collect_values_keeps_cursor(i, meta_args, parameters, default_args) ==
    LET is_variadic ==
            IF parameters /= <<>>
            THEN is_parameter_variadic(parameters[Len(parameters)])
            ELSE "not_variadic"
        j == CollectLoop(i, meta_args, 0, is_variadic = "not_variadic",
                         Len(parameters))
        explicit == [k \in 1..j |-> meta_args[i + k + 1].modified.text]
        defaults_provided ==
            (j - Len(parameters) + Len(default_args)) % SizeModulus
        first == defaults_provided
        last == Len(default_args)
        collected_values ==
            IF is_variadic = "not_variadic" /\ first < last
            THEN explicit \o subordinate(default_args, first, last)
            ELSE explicit
        valid ==
            IF is_variadic = "not_variadic"
            THEN (IF Len(collected_values) /= Len(parameters)
                  THEN "not_enough_values" ELSE "valid")
            ELSE IF is_variadic = "one_or_more" /\ Len(collected_values) < 1
            THEN "not_enough_values"
            ELSE "valid"
    IN  [values |-> collected_values, valid |-> valid, i |-> i]

\* The record [values, valid, i]: the returned vector and the two
\* reference parameters as collect_values leaves them.
collect_values(i, meta_args, parameters, default_args) ==
    LET is_variadic ==
            IF parameters /= <<>>
            THEN is_parameter_variadic(parameters[Len(parameters)])
            ELSE "not_variadic"
        j == CollectLoop(i, meta_args, 0, is_variadic = "not_variadic",
                         Len(parameters))
        explicit == [k \in 1..j |-> meta_args[i + k + 1].modified.text]
        defaults_provided ==
            (j - Len(parameters) + Len(default_args)) % SizeModulus
        first == defaults_provided
        last == Len(default_args)
        collected_values ==
            IF is_variadic = "not_variadic" /\ first < last
            THEN explicit \o subordinate(default_args, first, last)
            ELSE explicit
        valid ==
            IF is_variadic = "not_variadic"
            THEN (IF Len(collected_values) /= Len(parameters)
                  THEN "not_enough_values" ELSE "valid")
            ELSE IF is_variadic = "one_or_more" /\ Len(collected_values) < 1
            THEN "not_enough_values"
            ELSE "valid"
    IN  [values |-> collected_values, valid |-> valid, i |-> i + j]

(***************************************************************************)
(* The three passes that turn args into meta_args                          *)
(***************************************************************************)
IsStop(arg_type) == arg_type = "double_hyphen" \/ arg_type = "unknown"

Whole(arg) == squiggled_text(arg, 0, Len(arg))

\* The "Unparsed" loops: args[from], args[from + 1], ... typed unknown.
Unparsed(args, from) ==
    [k \in 1..(IF from < Len(args) THEN Len(args) - from ELSE 0) |->
        meta_argument(Whole(args[from + k]), Whole(args[from + k]), "unknown")]

\* SplitOne classifying the right part by its own leading characters.
SplitOne_retyped(arg) ==
    LET arg_type == get_argument_type(arg)
        pos == IF arg_type = "long_option" \/ arg_type = "short_option"
               THEN find_first_of(arg, "=")
               ELSE IF arg_type = "microsoft_switch"
               THEN find_first_of(arg, ":")
               ELSE npos
        first == substr_n(arg, 0, pos)
        second == substr(arg, pos + 1)
    IN  IF pos = npos
        THEN << meta_argument(Whole(arg), Whole(arg), arg_type) >>
        ELSE << meta_argument(squiggled_text(arg, 0, pos), Whole(first),
                              arg_type),
                meta_argument(squiggled_text(arg, pos + 1, Len(second)),
                              Whole(second), get_argument_type(second)) >>

\* One argument of the first pass.
SplitOne(arg) ==
    LET arg_type == get_argument_type(arg)
        pos == IF arg_type = "long_option" \/ arg_type = "short_option"
               THEN find_first_of(arg, "=")
               ELSE IF arg_type = "microsoft_switch"
               THEN find_first_of(arg, ":")
               ELSE npos
        first == substr_n(arg, 0, pos)
        second == substr(arg, pos + 1)
    IN  IF pos = npos
        THEN << meta_argument(Whole(arg), Whole(arg), arg_type) >>
        ELSE << meta_argument(squiggled_text(arg, 0, pos), Whole(first),
                              arg_type),
                meta_argument(squiggled_text(arg, pos + 1, Len(second)),
                              Whole(second), "regular_argument") >>

\* The first loop: [meta, idx] is meta_args_1 and mod_i_1 when it ends.
RECURSIVE SplitLoop(_, _, _)
SplitLoop(args, mod_i, acc) ==
    IF mod_i < Len(args) /\ ~IsStop(get_argument_type(args[mod_i + 1]))
    THEN SplitLoop(args, mod_i + 1, acc \o SplitOne(args[mod_i + 1]))
    ELSE [meta |-> acc, idx |-> mod_i]

split_values(args) ==
    LET r == SplitLoop(args, 0, <<>>)
    IN  r.meta \o Unparsed(args, r.idx)

\* ExpandOne producing the flags right to left.
ExpandOne_reversed(meta_arg) ==
    IF meta_arg.arg_type /= "short_option"
    THEN << meta_arg >>
    ELSE [k \in 1..(Len(meta_arg.modified.text) - 1) |->
            meta_argument(
                squiggled_text(meta_arg.original.text,
                               meta_arg.original.position + k, 1),
                squiggled_text(<<"-", meta_arg.modified.text[
                                   Len(meta_arg.modified.text) + 1 - k]>>, 1, 1),
                meta_arg.arg_type)]

\* One element of the second pass: "-abc" to "-a", "-b", "-c".
ExpandOne(meta_arg) ==
    IF meta_arg.arg_type /= "short_option"
    THEN << meta_arg >>
    ELSE [k \in 1..(Len(meta_arg.modified.text) - 1) |->
            meta_argument(
                squiggled_text(meta_arg.original.text,
                               meta_arg.original.position + k, 1),
                squiggled_text(<<"-", meta_arg.modified.text[k + 1]>>, 1, 1),
                meta_arg.arg_type)]

RECURSIVE ExpandLoop(_, _, _)
ExpandLoop(meta_args_in, mod_i, acc) ==
    IF mod_i < Len(meta_args_in) /\ ~IsStop(meta_args_in[mod_i + 1].arg_type)
    THEN ExpandLoop(meta_args_in, mod_i + 1,
                    acc \o ExpandOne(meta_args_in[mod_i + 1]))
    ELSE [meta |-> acc, idx |-> mod_i]

split_short_options(args, meta_args_in) ==
    LET r == ExpandLoop(meta_args_in, 0, <<>>)
    IN  r.meta \o Unparsed(args, r.idx)

\* AdjustOne leaving the squiggle of the original argument where it was.
AdjustOne_original_kept(meta_arg) ==
    LET skip == IF meta_arg.arg_type = "long_option" THEN 2
                ELSE IF meta_arg.arg_type = "microsoft_switch" THEN 1
                ELSE 0
    IN  IF skip = 0 THEN meta_arg
        ELSE meta_argument(
                meta_arg.original,
                squiggled_text(meta_arg.modified.text, skip,
                    (Len(meta_arg.modified.text) - skip) % SizeModulus),
                meta_arg.arg_type)

\* One element of the third pass: the squiggle skips "--" and "/".
AdjustOne(meta_arg) ==
    LET skip == IF meta_arg.arg_type = "long_option" THEN 2
                ELSE IF meta_arg.arg_type = "microsoft_switch" THEN 1
                ELSE 0
    IN  IF skip = 0 THEN meta_arg
        ELSE meta_argument(
                squiggled_text(meta_arg.original.text, skip,
                    (Len(meta_arg.modified.text) - skip) % SizeModulus),
                squiggled_text(meta_arg.modified.text, skip,
                    (Len(meta_arg.modified.text) - skip) % SizeModulus),
                meta_arg.arg_type)

RECURSIVE AdjustLoop(_, _, _)
AdjustLoop(meta_args_in, mod_i, acc) ==
    IF mod_i < Len(meta_args_in) /\ ~IsStop(meta_args_in[mod_i + 1].arg_type)
    THEN AdjustLoop(meta_args_in, mod_i + 1,
                    Append(acc, AdjustOne(meta_args_in[mod_i + 1])))
    ELSE [meta |-> acc, idx |-> mod_i]

adjust_names(args, meta_args_in) ==
    LET r == AdjustLoop(meta_args_in, 0, <<>>)
    IN  r.meta \o Unparsed(args, r.idx)

\* meta_args as the parse loop sees them ("Latest modification").
tokenize(args) ==
    adjust_names(args, split_short_options(args, split_values(args)))

(***************************************************************************)
(* One iteration of the parse loop on meta_args[i].  The result is the     *)
(* record emitted, the cursor at the start of the next iteration and the   *)
(* current_subcommand it leaves.                                           *)
(***************************************************************************)
Iteration(rec, i, cur) == [rec |-> rec, i |-> i, cur |-> cur]

\* parse_regular without the `current_subcommand = nullptr` of the fallback.
parse_regular_keeps_scope(f, meta_args, i, cur) ==
    LET meta_arg == meta_args[i + 1]
        nested == IF cur /= nullptr
                  THEN match_subcommand(f, meta_arg.modified.text,
                                        f.sub[cur].subcommands)
                  ELSE nullptr
        matched_subcommand ==
            IF nested = nullptr
            THEN match_subcommand(f, meta_arg.modified.text, f.subcommands)
            ELSE nested
        c == collect_values(i, meta_args,
                            f.sub[matched_subcommand].parameters,
                            f.sub[matched_subcommand].defaults_from_back)
    IN  IF matched_subcommand = nullptr
        THEN Iteration(parsed_argument(meta_arg, "unrecognized_subcommand",
                                       TRUE, nullptr, nullptr, <<>>),
                       i + 1, cur)
        ELSE Iteration(parsed_argument(meta_arg, c.valid, TRUE, nullptr,
                                       matched_subcommand, c.values),
                       c.i + 1, matched_subcommand)

parse_regular(f, meta_args, i, cur) ==
    LET meta_arg == meta_args[i + 1]
        nested == IF cur /= nullptr
                  THEN match_subcommand(f, meta_arg.modified.text,
                                        f.sub[cur].subcommands)
                  ELSE nullptr
        current_subcommand == IF nested = nullptr THEN nullptr ELSE cur
        matched_subcommand ==
            IF nested = nullptr
            THEN match_subcommand(f, meta_arg.modified.text, f.subcommands)
            ELSE nested
        c == collect_values(i, meta_args,
                            f.sub[matched_subcommand].parameters,
                            f.sub[matched_subcommand].defaults_from_back)
    IN  IF matched_subcommand = nullptr
        THEN Iteration(parsed_argument(meta_arg, "unrecognized_subcommand",
                                       TRUE, nullptr, nullptr, <<>>),
                       i + 1, current_subcommand)
        ELSE Iteration(parsed_argument(meta_arg, c.valid, TRUE, nullptr,
                                       matched_subcommand, c.values),
                       c.i + 1, matched_subcommand)

\* parse_option looking among the global options before the nested ones.
parse_option_global_first(f, meta_args, i, cur, switch_ins) ==
    LET meta_arg == meta_args[i + 1]
        global == match_option(f, meta_arg.modified.text, meta_arg.arg_type,
                               f.options, switch_ins)
        matched_option ==
            IF global = nullptr /\ cur /= nullptr
            THEN match_option(f, meta_arg.modified.text, meta_arg.arg_type,
                              f.sub[cur].subcommand_options, switch_ins)
            ELSE global
        c == collect_values(i, meta_args, f.opt[matched_option].parameters,
                            f.opt[matched_option].defaults_from_back)
    IN  IF matched_option = nullptr
        THEN Iteration(parsed_argument(meta_arg, "unrecognized_option", TRUE,
                                       nullptr, nullptr, <<>>),
                       i + 1, cur)
        ELSE Iteration(parsed_argument(meta_arg, c.valid, TRUE,
                                       matched_option, nullptr, c.values),
                       c.i + 1, cur)

\* parse_option dropping the scope as the subcommand fallback does.
parse_option_resets_scope(f, meta_args, i, cur, switch_ins) ==
    LET meta_arg == meta_args[i + 1]
        nested == IF cur /= nullptr
                  THEN match_option(f, meta_arg.modified.text,
                                    meta_arg.arg_type,
                                    f.sub[cur].subcommand_options, switch_ins)
                  ELSE nullptr
        matched_option ==
            IF nested = nullptr
            THEN match_option(f, meta_arg.modified.text, meta_arg.arg_type,
                              f.options, switch_ins)
            ELSE nested
        c == collect_values(i, meta_args, f.opt[matched_option].parameters,
                            f.opt[matched_option].defaults_from_back)
    IN  IF matched_option = nullptr
        THEN Iteration(parsed_argument(meta_arg, "unrecognized_option", TRUE,
                                       nullptr, nullptr, <<>>),
                       i + 1, nullptr)
        ELSE Iteration(parsed_argument(meta_arg, c.valid, TRUE,
                                       matched_option, nullptr, c.values),
                       c.i + 1, IF nested = nullptr THEN nullptr ELSE cur)

parse_option(f, meta_args, i, cur, switch_ins) ==
    LET meta_arg == meta_args[i + 1]
        nested == IF cur /= nullptr
                  THEN match_option(f, meta_arg.modified.text,
                                    meta_arg.arg_type,
                                    f.sub[cur].subcommand_options, switch_ins)
                  ELSE nullptr
        matched_option ==
            IF nested = nullptr
            THEN match_option(f, meta_arg.modified.text, meta_arg.arg_type,
                              f.options, switch_ins)
            ELSE nested
        c == collect_values(i, meta_args, f.opt[matched_option].parameters,
                            f.opt[matched_option].defaults_from_back)
    IN  IF matched_option = nullptr
        THEN Iteration(parsed_argument(meta_arg, "unrecognized_option", TRUE,
                                       nullptr, nullptr, <<>>),
                       i + 1, cur)
        ELSE Iteration(parsed_argument(meta_arg, c.valid, TRUE,
                                       matched_option, nullptr, c.values),
                       c.i + 1, cur)

\* The final else leaving the cursor on the argument.
parse_other_stalls(meta_args, i, cur) ==
    Iteration(parsed_argument(meta_args[i + 1], "unknown", TRUE, nullptr,
                              nullptr, <<>>),
              i, cur)

\* The final else: empty and single_hyphen arguments.
parse_other(meta_args, i, cur) ==
    Iteration(parsed_argument(meta_args[i + 1], "unknown", TRUE, nullptr,
                              nullptr, <<>>),
              i + 1, cur)

IsOptionType(arg_type) ==
    arg_type \in {"long_option", "short_option", "microsoft_switch"}

parse_iteration(f, meta_args, i, cur, switch_ins) ==
    IF meta_args[i + 1].arg_type = "regular_argument"
    THEN parse_regular(f, meta_args, i, cur)
    ELSE IF IsOptionType(meta_args[i + 1].arg_type)
    THEN parse_option(f, meta_args, i, cur, switch_ins)
    ELSE parse_other(meta_args, i, cur)

\* unparsed_argument leaving the validity unknown.
unparsed_argument_unknown(meta_arg) ==
    parsed_argument(meta_arg, "unknown", FALSE, nullptr, nullptr, <<>>)

\* "Add all the unparsed arguments (as valid)".
unparsed_argument(meta_arg) ==
    parsed_argument(meta_arg, "valid", FALSE, nullptr, nullptr, <<>>)

LoopEnds(meta_args, i) ==
    IF i >= Len(meta_args) THEN TRUE ELSE IsStop(meta_args[i + 1].arg_type)

\* Both loops of parse_arguments run to the end from cursor i.
RECURSIVE parse_loop(_, _, _, _, _, _)
parse_loop(f, meta_args, i, cur, switch_ins, acc) ==
    IF LoopEnds(meta_args, i)
    THEN acc \o [k \in 1..(IF i < Len(meta_args) THEN Len(meta_args) - i
                           ELSE 0) |-> unparsed_argument(meta_args[i + k])]
    ELSE LET it == parse_iteration(f, meta_args, i, cur, switch_ins)
         IN  parse_loop(f, meta_args, it.i, it.cur, switch_ins,
                        Append(acc, it.rec))

\* The records parse_arguments returns for a forest that passes the checks.
parse_arguments(f, args, switch_ins) ==
    parse_loop(f, tokenize(args), 0, nullptr, switch_ins, <<>>)

(***************************************************************************)
(* Template forests                                                        *)
(***************************************************************************)
ParamNames == { <<"p">>, Ellipsis, <<"p", ".", ".", ".">> }

ParamLists == UNION { [1..n -> ParamNames] : n \in 0..MaxParams }

DefaultValue(k) == <<"d">> \o [x \in 1..k |-> "'"]

DefaultLists == { [k \in 1..d |-> DefaultValue(k)] : d \in 0..MaxParams }

\* Indices of the templates in the tables of Forest.
Opt == [name |-> 1, x |-> 2, a_long_x |-> 3, a_x |-> 4, b_y |-> 5, n2 |-> 6]

Sub == [a |-> 1, a_b |-> 2, b |-> 3, c |-> 4, a2 |-> 5, a_b2 |-> 6]

\* Global options --name/-n (declaring parameters P with defaults D), -x and
\* a second -n; subcommand a with children b, b and nested options --x, -x;
\* its child b with nested option -y; top-level subcommands a, b, c (declaring
\* P with D) and a second a.
Forest(P, D) ==
    [opt |-> << option_template(<< <<"n", "a", "m", "e">> >>, <<"n">>, P, D),
                option_template(<<>>, <<"x">>, <<>>, <<>>),
                option_template(<< <<"x">> >>, <<>>, <<>>, <<>>),
                option_template(<<>>, <<"x">>, <<>>, <<>>),
                option_template(<<>>, <<"y">>, <<>>, <<>>),
                option_template(<<>>, <<"n">>, <<>>, <<>>) >>,
     sub |-> << subcommand_template(<< <<"a">> >>, <<>>, <<>>,
                                    <<Sub.a_b, Sub.a_b2>>,
                                    <<Opt.a_long_x, Opt.a_x>>),
                subcommand_template(<< <<"b">> >>, <<>>, <<>>, <<>>,
                                    <<Opt.b_y>>),
                subcommand_template(<< <<"b">> >>, <<>>, <<>>, <<>>, <<>>),
                subcommand_template(<< <<"c">> >>, P, D, <<>>, <<>>),
                subcommand_template(<< <<"a">> >>, <<>>, <<>>, <<>>, <<>>),
                subcommand_template(<< <<"b">> >>, <<>>, <<>>, <<>>, <<>>) >>,
     options |-> <<Opt.name, Opt.x, Opt.n2>>,
     subcommands |-> <<Sub.a, Sub.b, Sub.c, Sub.a2>>]

\* A forest whose option list holds a null pointer.
NullForest ==
    [Forest(<<>>, <<>>) EXCEPT !.options = <<Opt.name, nullptr>>]

\* A forest whose subcommand a is variadic and has nested subcommands.
VariadicNestedForest ==
    [Forest(<<>>, <<>>) EXCEPT !.sub[Sub.a].parameters = <<Ellipsis>>]

AllForests ==
    { Forest(P, D) : P \in ParamLists, D \in DefaultLists }
        \cup {NullForest, VariadicNestedForest}

FlagForests ==
    { Forest(<<>>, <<>>), Forest(<< <<"p">> >>, <<>>), NullForest }

SanityPasses(f) ==
    /\ options_sanity_checker(f, f.options)
    /\ subcommands_sanity_checker(f, f.subcommands)

(***************************************************************************)
(* Argument lists                                                          *)
(***************************************************************************)
ArgLists(pool) == UNION { [1..n -> pool] : n \in 0..MaxArgs }

DoubleHyphen == <<"-", "-">>

\* Subcommand names, options of the forest and the terminator.
ScopePool ==
    { <<"a">>, <<"b">>, <<"c">>, <<"z", "z">>, <<"-", "x">>, <<"-", "y">>,
      <<"-", "n">>, <<"/", "x">>, <<"-">>, DoubleHyphen }

\* Arguments with '=' and ':'.
SplitPool ==
    { <<"-", "-", "n", "a", "m", "e", "=", "v">>,
      <<"-", "-", "n", "a", "m", "e", ":", "v">>,
      <<"-", "-", "n", "a", "m", "e", "=", "-", "x", "=">>,
      <<"-", "n", "=", "v">>,
      <<"-", "n", "=">>,
      <<"/", "n", "a", "m", "e", ":", "v">>,
      <<"/", "n", "a", "m", "e", "=", "v">>,
      <<"/", "n", "a", "m", "e", ":", "/", "x", ":">>,
      <<"-">>, DoubleHyphen }

\* Combined short options, split arguments and the terminator.
TermPool ==
    { <<"-", "x", "y">>, <<"-", "x", "-">>, <<"-", "x", "y", "n">>,
      <<"-", "x", "y", "=", "v">>, <<"-", "-", "n", "a", "m", "e">>,
      <<"-", "-", "n", "a", "m", "e", "=", "v">>, <<"v">>, <<>>, <<"-">>,
      DoubleHyphen }

\* Option names in both cases, in the three option styles, a subcommand, a
\* bare hyphen and the terminator.
CasePool ==
    { <<"-", "-", "n", "a", "m", "e">>, <<"-", "-", "N", "a", "m", "e">>,
      <<"-", "x">>, <<"-", "X">>, <<"/", "X">>, <<"/", "N", "a", "m", "e">>,
      <<"a">>, <<"-">>, DoubleHyphen }

\* An option and a subcommand that take values, and what may follow them.
ValuePool ==
    { <<"-", "-", "n", "a", "m", "e">>, <<"c">>, <<"v">>, <<"w">>, <<"-">>,
      <<>>, <<"-", "q">>, DoubleHyphen }

(***************************************************************************)
(* State of one call of parse_arguments                                    *)
(***************************************************************************)
VARIABLES args, forest, switch_ins, pc, raised, meta_args_1, meta_args_2,
          meta_args, current_subcommand, result, i,
          cmd_line, string, width, lines

vars == <<args, forest, switch_ins, pc, raised, meta_args_1, meta_args_2,
          meta_args, current_subcommand, result, i,
          cmd_line, string, width, lines>>

Called(pool, forests, ins) ==
    /\ args \in ArgLists(pool)
    /\ forest \in forests
    /\ switch_ins \in ins
    /\ pc = "sanity"
    /\ raised = "none"
    /\ meta_args_1 = <<>>
    /\ meta_args_2 = <<>>
    /\ meta_args = <<>>
    /\ current_subcommand = nullptr
    /\ result = <<>>
    /\ i = 0
    /\ cmd_line = <<>>
    /\ string = <<>>
    /\ width = 0
    /\ lines = <<>>

Init == Called(ScopePool, FlagForests, BOOLEAN)

InitSplit == Called(SplitPool, FlagForests, {TRUE})

InitTerm == Called(TermPool, FlagForests, {TRUE})

InitValues == Called(ValuePool, AllForests, {TRUE})

InitCase == Called(CasePool, FlagForests, BOOLEAN)

\* options_sanity_checker(options); subcommands_sanity_checker(subcommands, {})
SanityCheck ==
    /\ pc = "sanity"
    /\ IF SanityPasses(forest)
       THEN pc' = "split" /\ UNCHANGED raised
       ELSE pc' = "threw" /\ raised' = "invalid_argument"
    /\ UNCHANGED <<cmd_line, string, width, lines, args, forest, switch_ins, meta_args_1, meta_args_2,
                   meta_args, current_subcommand, result, i>>

\* "Split with '=' or ':' based on argument"
SplitValues ==
    /\ pc = "split"
    /\ meta_args_1' = split_values(args)
    /\ pc' = "short"
    /\ UNCHANGED <<cmd_line, string, width, lines, args, forest, switch_ins, raised, meta_args_2, meta_args,
                   current_subcommand, result, i>>

\* "Split short options of "-abc" to "-a", "-b", "-c""
SplitShortOptions ==
    /\ pc = "short"
    /\ meta_args_2' = split_short_options(args, meta_args_1)
    /\ pc' = "adjust"
    /\ UNCHANGED <<cmd_line, string, width, lines, args, forest, switch_ins, raised, meta_args_1, meta_args,
                   current_subcommand, result, i>>

\* "Adjust pos and size for long names and Microsoft-style names"
AdjustNames ==
    /\ pc = "adjust"
    /\ meta_args' = adjust_names(args, meta_args_2)
    /\ pc' = "parse"
    /\ UNCHANGED <<cmd_line, string, width, lines, args, forest, switch_ins, raised, meta_args_1,
                   meta_args_2, current_subcommand, result, i>>

Emit(it) ==
    /\ result' = Append(result, it.rec)
    /\ i' = it.i
    /\ current_subcommand' = it.cur
    /\ UNCHANGED <<cmd_line, string, width, lines, args, forest, switch_ins, pc, raised, meta_args_1,
                   meta_args_2, meta_args>>

AtToken == pc = "parse" /\ ~LoopEnds(meta_args, i)

ParseRegular ==
    /\ AtToken
    /\ meta_args[i + 1].arg_type = "regular_argument"
    /\ Emit(parse_regular(forest, meta_args, i, current_subcommand))

\* ParseOption raising on an unrecognized option instead of recording it.
ParseOptionRaises ==
    /\ AtToken
    /\ IsOptionType(meta_args[i + 1].arg_type)
    /\ IF parse_option(forest, meta_args, i, current_subcommand,
                       switch_ins).rec.valid = "unrecognized_option"
       THEN /\ pc' = "threw"
            /\ raised' = "argument_error"
            /\ UNCHANGED <<cmd_line, string, width, lines, args, forest, switch_ins, meta_args_1,
                           meta_args_2, meta_args, current_subcommand,
                           result, i>>
       ELSE Emit(parse_option(forest, meta_args, i, current_subcommand,
                              switch_ins))

ParseOption ==
    /\ AtToken
    /\ IsOptionType(meta_args[i + 1].arg_type)
    /\ IF match_option_throws(meta_args[i + 1].modified.text,
                              meta_args[i + 1].arg_type)
       THEN /\ pc' = "threw"
            /\ raised' = "out_of_range"
            /\ UNCHANGED <<cmd_line, string, width, lines, args, forest, switch_ins, meta_args_1,
                           meta_args_2, meta_args, current_subcommand,
                           result, i>>
       ELSE Emit(parse_option(forest, meta_args, i, current_subcommand,
                              switch_ins))

ParseOther ==
    /\ AtToken
    /\ meta_args[i + 1].arg_type \in {"empty", "single_hyphen"}
    /\ Emit(parse_other(meta_args, i, current_subcommand))

\* The parse loop is left at the end of meta_args or at an unparsed one.
EndOfParsing ==
    /\ pc = "parse"
    /\ LoopEnds(meta_args, i)
    /\ pc' = "unparsed"
    /\ UNCHANGED <<cmd_line, string, width, lines, args, forest, switch_ins, raised, meta_args_1,
                   meta_args_2, meta_args, current_subcommand, result, i>>

AddUnparsed ==
    /\ pc = "unparsed"
    /\ i < Len(meta_args)
    /\ result' = Append(result, unparsed_argument(meta_args[i + 1]))
    /\ i' = i + 1
    /\ UNCHANGED <<cmd_line, string, width, lines, args, forest, switch_ins, pc, raised, meta_args_1,
                   meta_args_2, meta_args, current_subcommand>>

Return ==
    /\ pc = "unparsed"
    /\ i >= Len(meta_args)
    /\ pc' = "done"
    /\ UNCHANGED <<cmd_line, string, width, lines, args, forest, switch_ins, raised, meta_args_1,
                   meta_args_2, meta_args, current_subcommand, result, i>>

Next ==
    \/ SanityCheck
    \/ SplitValues
    \/ SplitShortOptions
    \/ AdjustNames
    \/ ParseRegular
    \/ ParseOption
    \/ ParseOther
    \/ EndOfParsing
    \/ AddUnparsed
    \/ Return

Spec == Init /\ [][Next]_vars

SpecSplit == InitSplit /\ [][Next]_vars

SpecTerm == InitTerm /\ [][Next]_vars

SpecValues == InitValues /\ [][Next]_vars

SpecCase == InitCase /\ [][Next]_vars

(***************************************************************************)
(* Properties                                                              *)
(***************************************************************************)
Token == meta_args[i + 1]

RegularStep ==
    IF pc = "parse" /\ ~LoopEnds(meta_args, i)
    THEN Token.arg_type = "regular_argument"
    ELSE FALSE

OptionStep ==
    IF pc = "parse" /\ ~LoopEnds(meta_args, i)
    THEN IsOptionType(Token.arg_type)
    ELSE FALSE

\* The step appends exactly one record.
OneRecord == Len(result') = Len(result) + 1 /\ SubSeq(result', 1, Len(result)) = result

Emitted == result'[Len(result')]

Named(s, text) == \E n \in 1..Len(forest.sub[s].names) : forest.sub[s].names[n] = text

RECURSIVE FirstNamed(_, _)
FirstNamed(list, text) ==
    IF list = <<>> THEN nullptr
    ELSE IF Named(Head(list), text) THEN Head(list)
    ELSE FirstNamed(Tail(list), text)

Children == IF current_subcommand = nullptr THEN <<>> ELSE forest.sub[current_subcommand].subcommands

NestedOptions == IF current_subcommand = nullptr THEN <<>> ELSE forest.sub[current_subcommand].subcommand_options

\* The subcommand a regular token names: a child of the scope, else a top-level one.
ResolvedSubcommand ==
    IF FirstNamed(Children, Token.modified.text) /= nullptr
    THEN FirstNamed(Children, Token.modified.text)
    ELSE FirstNamed(forest.subcommands, Token.modified.text)

Unrecognized(kind) ==
    /\ OneRecord
    /\ Emitted = [argument |-> Token, valid |-> kind, is_parsed |-> TRUE, ref_option |-> nullptr, ref_subcommand |-> nullptr, values |-> <<>>]
    /\ i' = i + 1

\* C1 as stated: a regular token that names no child of the active scope and
\* no top-level subcommand yields one unrecognized_subcommand record and
\* leaves the active scope as it was.
C1_ScopeKept ==
    [][RegularStep /\ ResolvedSubcommand = nullptr
         => Unrecognized("unrecognized_subcommand") /\ current_subcommand' = current_subcommand]_vars

\* C1 amended: a regular token that names no child of the active scope and
\* no top-level subcommand yields one unrecognized_subcommand record and
\* leaves no scope active, so a following option is looked up among the
\* global options only.
C1_ScopeReset ==
    [][RegularStep /\ ResolvedSubcommand = nullptr
         => Unrecognized("unrecognized_subcommand") /\ current_subcommand' = nullptr]_vars

\* `a zz -x`: a matched, zz unrecognized, -x is the global -x, not a's.
C1_Witness ==
    /\ pc = "done"
    /\ Len(result) = 3
    /\ result[1].ref_subcommand = Sub.a
    /\ result[2].valid = "unrecognized_subcommand"
    /\ result[3].ref_option = Opt.x

\* C6: a regular token at the cursor resolves to the first child of the
\* active subcommand that has its text as a name, else to the first top-level
\* subcommand that has; one record referencing that subcommand is emitted,
\* valid or not_enough_values, and the subcommand becomes the active scope.
C6_SubcommandResolution ==
    [][RegularStep /\ ResolvedSubcommand /= nullptr
         => /\ OneRecord
            /\ Emitted.argument = Token
            /\ Emitted.is_parsed
            /\ Emitted.ref_subcommand = ResolvedSubcommand
            /\ Emitted.ref_option = nullptr
            /\ Emitted.valid \in {"valid", "not_enough_values"}
            /\ current_subcommand' = ResolvedSubcommand]_vars

\* `a b`: b is a's first child b, not the top-level b nor a's second child b.
C6_Witness ==
    /\ pc = "done"
    /\ Len(result) >= 2
    /\ result[1].ref_subcommand = Sub.a
    /\ result[2].ref_subcommand = Sub.a_b
    /\ current_subcommand = Sub.a_b

HasName(names, name, insensitive) ==
    \E n \in 1..Len(names) :
        names[n] = name \/ (insensitive /\ is_equal_ins(names[n], name))

\* The option template o has the name the token at the cursor gives.
OptionNamed(o) ==
    LET text == Token.modified.text
    IN  CASE Token.arg_type = "long_option" ->
                HasName(forest.opt[o].long_names, SubSeq(text, 3, Len(text)), FALSE)
          [] Token.arg_type = "short_option" ->
                HasName([n \in 1..Len(forest.opt[o].short_names) |-> <<forest.opt[o].short_names[n]>>], <<text[2]>>, FALSE)
          [] Token.arg_type = "microsoft_switch" ->
                \/ /\ Len(text) = 2
                   /\ HasName([n \in 1..Len(forest.opt[o].short_names) |-> <<forest.opt[o].short_names[n]>>], <<text[2]>>, switch_ins)
                \/ HasName(forest.opt[o].long_names, SubSeq(text, 2, Len(text)), switch_ins)
          [] OTHER -> FALSE

\* The option template o has the character of a two-character switch at the
\* cursor as a short name.
ShortNamedBySwitch(o) ==
    /\ Token.arg_type = "microsoft_switch"
    /\ Len(Token.modified.text) = 2
    /\ HasName([n \in 1..Len(forest.opt[o].short_names) |-> <<forest.opt[o].short_names[n]>>], <<Token.modified.text[2]>>, switch_ins)

RECURSIVE FirstOptionNamed(_)
FirstOptionNamed(list) ==
    IF list = <<>> THEN nullptr
    ELSE IF OptionNamed(Head(list)) THEN Head(list)
    ELSE FirstOptionNamed(Tail(list))

RECURSIVE FirstShortNamedBySwitch(_)
FirstShortNamedBySwitch(list) ==
    IF list = <<>> THEN nullptr
    ELSE IF ShortNamedBySwitch(Head(list)) THEN Head(list)
    ELSE FirstShortNamedBySwitch(Tail(list))

\* Within one list a two-character switch prefers a short-name match.
FirstOptionShortFirst(list) ==
    IF FirstShortNamedBySwitch(list) /= nullptr
    THEN FirstShortNamedBySwitch(list)
    ELSE FirstOptionNamed(list)

OptionRecord(expected) ==
    /\ OneRecord
    /\ Emitted.argument = Token
    /\ Emitted.ref_subcommand = nullptr
    /\ Emitted.ref_option = expected
    /\ (expected = nullptr) = (Emitted.valid = "unrecognized_option")

\* C7 as stated: an option-shaped token resolves to the first template, in
\* list order, of the active subcommand's nested options that has its name,
\* and only if there is none to the first such global option.
C7_FirstMatching ==
    [][OptionStep
         => OptionRecord(IF FirstOptionNamed(NestedOptions) /= nullptr
                         THEN FirstOptionNamed(NestedOptions)
                         ELSE FirstOptionNamed(forest.options))]_vars

\* C7 amended: the same, except that within a list a two-character switch
\* resolves to the first template with a matching short name and only if
\* there is none to the first template with a matching long name.
C7_NestedBeforeGlobal ==
    [][OptionStep
         => OptionRecord(IF FirstOptionShortFirst(NestedOptions) /= nullptr
                         THEN FirstOptionShortFirst(NestedOptions)
                         ELSE FirstOptionShortFirst(forest.options))]_vars

\* `a -x -n`: -x is a's nested -x although a global -x exists, and -n, which
\* a does not nest, is the first global -n.
C7_Witness ==
    /\ pc = "done"
    /\ Len(result) = 3
    /\ result[1].ref_subcommand = Sub.a
    /\ result[2].ref_option = Opt.a_x
    /\ result[2].argument.arg_type = "short_option"
    /\ result[3].ref_option = Opt.name

\* C8: an option-shaped token, matched or not, leaves the active scope as it
\* was; with a and its nested -x taking no values, `a -x b` yields the three
\* records a, a's nested -x and a's child b.
C8_OptionKeepsScope ==
    [][/\ OptionStep => current_subcommand' = current_subcommand
       /\ (/\ pc' = "done"
           /\ args = << <<"a">>, <<"-", "x">>, <<"b">> >>)
            => /\ Len(result') = 3
               /\ result'[1].ref_subcommand = Sub.a
               /\ result'[2].ref_option = Opt.a_x
               /\ result'[3].ref_subcommand = Sub.a_b
               /\ \A k \in 1..3 : result'[k].valid = "valid"]_vars

\* `a -x b` has been parsed and b is a's child.
C8_Witness ==
    /\ pc = "done"
    /\ args = << <<"a">>, <<"-", "x">>, <<"b">> >>
    /\ result[2].ref_option = Opt.a_x
    /\ result[3].ref_subcommand = Sub.a_b

\* C3: with a forest that passes the sanity checks nothing is raised; the
\* call returns with the cursor at the end of the tokens, and unrecognized
\* options, unrecognized subcommands and missing values show only as the
\* validity of records that are parsed.
C3_NoRaise ==
    /\ SanityPasses(forest) => pc /= "threw" /\ raised = "none"
    /\ pc = "threw" => raised = "invalid_argument" /\ result = <<>>
    /\ pc = "done"
         => /\ i = Len(meta_args)
            /\ \A k \in 1..Len(result) :
                 /\ result[k].valid \in {"unrecognized_option", "unrecognized_subcommand"}
                      => /\ result[k].is_parsed
                         /\ result[k].ref_option = nullptr
                         /\ result[k].ref_subcommand = nullptr
                         /\ result[k].values = <<>>
                 /\ result[k].valid = "not_enough_values"
                      => /\ result[k].is_parsed
                         /\ result[k].ref_option /= nullptr \/ result[k].ref_subcommand /= nullptr

\* `v -q --name` with --name declaring a parameter: three records, one of
\* each kind of failure.
C3_Witness ==
    /\ pc = "done"
    /\ Len(result) = 3
    /\ result[1].valid = "unrecognized_subcommand"
    /\ result[2].valid = "unrecognized_option"
    /\ result[3].valid = "not_enough_values"

HasTemplate(rec) == rec.ref_option /= nullptr \/ rec.ref_subcommand /= nullptr

TemplateOf(rec) ==
    IF rec.ref_option /= nullptr
    THEN [parameters |-> forest.opt[rec.ref_option].parameters,
          defaults |-> forest.opt[rec.ref_option].defaults_from_back]
    ELSE [parameters |-> forest.sub[rec.ref_subcommand].parameters,
          defaults |-> forest.sub[rec.ref_subcommand].defaults_from_back]

VariadicName(name) ==
    /\ Len(name) >= 3
    /\ \A k \in (Len(name) - 2)..Len(name) : name[k] = "."

\* A step of the parse loop that emits the record of a matched template.
TemplateStep ==
    IF pc = "parse" /\ Len(result') = Len(result) + 1
    THEN HasTemplate(Emitted)
    ELSE FALSE

\* The number of tokens the step took as values, and their texts.
Consumed == i' - i - 1

Explicit == [k \in 1..Consumed |-> meta_args[i + 1 + k].modified.text]

\* C4: a matched non-variadic template with p parameters and d defaults that
\* consumes j tokens gets, if j >= p - d, the j tokens followed by the last
\* p - j defaults, p values, valid; and if j < p - d the j tokens alone,
\* not_enough_values.
C4_RightAnchoredDefaults ==
    [][(/\ TemplateStep
        /\ \A n \in 1..Len(TemplateOf(Emitted).parameters) :
              ~VariadicName(TemplateOf(Emitted).parameters[n]))
         => LET p == Len(TemplateOf(Emitted).parameters)
                d == Len(TemplateOf(Emitted).defaults)
                j == Consumed
            IN  /\ j \in 0..p
                /\ d <= p
                /\ IF j >= p - d
                   THEN /\ Emitted.values = Explicit \o SubSeq(TemplateOf(Emitted).defaults, j - (p - d) + 1, d)
                        /\ Len(Emitted.values) = p
                        /\ Emitted.valid = "valid"
                   ELSE /\ Emitted.values = Explicit
                        /\ Emitted.valid = "not_enough_values"]_vars

\* --name with two parameters and two defaults was given one value: the
\* record holds that value and the second default only.
C4_Witness ==
    \E k \in 1..Len(result) :
        /\ result[k].ref_option = Opt.name
        /\ Len(forest.opt[Opt.name].parameters) = 2
        /\ Len(forest.opt[Opt.name].defaults_from_back) = 2
        /\ result[k].values = << <<"v">>, DefaultValue(2) >>
        /\ result[k].valid = "valid"

\* The matched template's only parameter is variadic.
OnlyVariadic ==
    IF TemplateStep
    THEN /\ Len(TemplateOf(Emitted).parameters) = 1
         /\ VariadicName(TemplateOf(Emitted).parameters[1])
    ELSE FALSE

IsRegular(k) == meta_args[k + 1].arg_type \in {"regular_argument", "single_hyphen"}

VariadicValidity ==
    (Emitted.valid = "not_enough_values")
        = (TemplateOf(Emitted).parameters[1] /= Ellipsis /\ Consumed = 0)

FirstDoubleHyphen ==
    IF \E k \in 1..Len(args) : args[k] = DoubleHyphen
    THEN CHOOSE k \in 1..Len(args) :
            /\ args[k] = DoubleHyphen
            /\ \A m \in 1..(k - 1) : args[m] /= DoubleHyphen
    ELSE 0

NotParsed(rec) == ~rec.is_parsed

\* C2: whatever precedes the first bare "--", the records with
\* is_parsed = FALSE are the raw arguments after it (the marker itself may
\* lead them), once each, in input order, text unchanged, and they reference
\* no template.
C2_TailVerbatim ==
    (pc = "done" /\ FirstDoubleHyphen /= 0)
        => LET tail == SubSeq(args, FirstDoubleHyphen + 1, Len(args))
               rest == SelectSeq(result, NotParsed)
               texts == [k \in 1..Len(rest) |-> rest[k].argument.modified.text]
           IN  /\ texts = tail \/ texts = <<DoubleHyphen>> \o tail
               /\ \A k \in 1..Len(rest) :
                    /\ rest[k].ref_option = nullptr
                    /\ rest[k].ref_subcommand = nullptr
                    /\ rest[k].values = <<>>

\* The first "=" of a long or short option argument, the first ":" of a
\* switch argument (one-based), 0 if there is none or for any other argument.
SplitAt(arg) ==
    LET c == IF arg = <<>> \/ arg = <<"-">> \/ arg = DoubleHyphen THEN "none"
             ELSE IF arg[1] = "-" THEN "="
             ELSE IF arg[1] = "/" THEN ":"
             ELSE "none"
    IN  IF \E k \in 1..Len(arg) : arg[k] = c
        THEN CHOOSE k \in 1..Len(arg) :
                arg[k] = c /\ \A m \in 1..(k - 1) : arg[m] /= c
        ELSE 0

KindOf(arg) ==
    IF arg = <<>> THEN "empty"
    ELSE IF arg = <<"-">> THEN "single_hyphen"
    ELSE IF arg = DoubleHyphen THEN "double_hyphen"
    ELSE IF arg[1] = "-" /\ arg[2] = "-" THEN "long_option"
    ELSE IF arg[1] = "-" THEN "short_option"
    ELSE IF arg[1] = "/" THEN "microsoft_switch"
    ELSE "regular_argument"

\* The tokens an argument is expected to give: <<text, kind>> pairs.
ExpectedOf(arg) ==
    IF SplitAt(arg) = 0
    THEN << <<arg, KindOf(arg)>> >>
    ELSE << <<SubSeq(arg, 1, SplitAt(arg) - 1), KindOf(arg)>>,
            <<SubSeq(arg, SplitAt(arg) + 1, Len(arg)), "regular_argument">> >>

RECURSIVE ExpectedTokens(_)
ExpectedTokens(k) ==
    IF k = 0 THEN <<>> ELSE ExpectedTokens(k - 1) \o ExpectedOf(args[k])

BeforeTerminator ==
    IF FirstDoubleHyphen = 0 THEN Len(args) ELSE FirstDoubleHyphen - 1

SingleArgument(texts) == pc = "done" /\ Len(args) = 1 /\ args[1] \in texts

Combined(m) ==
    /\ m \in 1..Len(args)
    /\ FirstDoubleHyphen = 0 \/ m < FirstDoubleHyphen
    /\ Len(args[m]) >= 3
    /\ args[m][1] = "-"
    /\ args[m][2] /= "-"
    /\ \A k \in 1..Len(args[m]) : args[m][k] /= "="

\* The arguments with args[m] replaced by its flags given one by one.
Separated(m) ==
    SubSeq(args, 1, m - 1)
        \o [k \in 1..(Len(args[m]) - 1) |-> <<"-", args[m][k + 1]>>]
        \o SubSeq(args, m + 1, Len(args))

\* The n records of args[m] are -c1 .. -cn in order and agree with the
\* records the separated arguments give at the same place.
SameAsSeparated(m) ==
    LET n == Len(args[m]) - 1
        r == Len(parse_arguments(forest, SubSeq(args, 1, m - 1), switch_ins))
        separate == parse_arguments(forest, Separated(m), switch_ins)
    IN  /\ Len(result) >= r + n
        /\ Len(separate) >= r + n
        /\ \A k \in 1..n :
             /\ result[r + k].argument.modified.text = <<"-", args[m][k + 1]>>
             /\ result[r + k].argument.arg_type = "short_option"
             /\ result[r + k].ref_option = separate[r + k].ref_option
             /\ result[r + k].ref_subcommand = separate[r + k].ref_subcommand
             /\ result[r + k].valid = separate[r + k].valid
             /\ result[r + k].values = separate[r + k].values

\* C10 as stated: every combined argument -c1c2...cn without "=" gives n
\* records, the i-th with modified text -ci, with the references, validity
\* and values that -c1, ..., -cn give as n separate arguments there.
C10_CombinedAsSeparate ==
    pc = "done" => \A m \in 1..Len(args) : Combined(m) => SameAsSeparated(m)

\* C10 amended: the same when none of c1 .. cn is "-".
C10_CombinedNoHyphen ==
    pc = "done"
        => \A m \in 1..Len(args) :
             (Combined(m) /\ \A k \in 2..Len(args[m]) : args[m][k] /= "-")
                 => SameAsSeparated(m)

\* `-xyn v` with -n declaring a parameter: three records, the last one the
\* option -n holding v.
C10_Witness ==
    /\ pc = "done"
    /\ args = << <<"-", "x", "y", "n">>, <<"v">> >>
    /\ Len(result) = 3
    /\ result[1].ref_option = Opt.x
    /\ result[2].valid = "unrecognized_option"
    /\ result[3].ref_option = Opt.name
    /\ result[3].values = << <<"v">> >>

OptionTokensBefore(n) ==
    Cardinality({k \in 1..n : IsOptionType(meta_args[k].arg_type)})

OptionRecords ==
    Cardinality({k \in 1..Len(result) :
                    result[k].is_parsed /\ IsOptionType(result[k].argument.arg_type)})

\* The collection of the step ended in front of an option-shaped token.
StopsAtOption ==
    IF i' < Len(meta_args) THEN IsOptionType(meta_args[i' + 1].arg_type) ELSE FALSE

\* C11: no token taken as a value is option-shaped; when the collection of
\* a template ends in front of an option-shaped token its record holds the
\* values collected so far, completed from the defaults or marked
\* not_enough_values, and the cursor is on that token; every option-shaped
\* token the cursor has passed has a record of its own.
C11_OptionsNeverValues ==
    /\ [](pc \in {"parse", "unparsed", "done"}
            => OptionRecords = OptionTokensBefore(IF i < Len(meta_args) THEN i ELSE Len(meta_args)))
    /\ [][TemplateStep
            => /\ \A k \in 1..Consumed : ~IsOptionType(meta_args[i + 1 + k].arg_type)
               /\ StopsAtOption
                    => /\ Len(Emitted.values) >= Consumed
                       /\ SubSeq(Emitted.values, 1, Consumed) = Explicit
                       /\ Emitted.valid \in {"valid", "not_enough_values"}
                       /\ Emitted.valid = "not_enough_values" => Emitted.values = Explicit
                       /\ \A k \in (Consumed + 1)..Len(Emitted.values) :
                            \E n \in 1..Len(TemplateOf(Emitted).defaults) :
                                Emitted.values[k] = TemplateOf(Emitted).defaults[n]]_vars

\* `--name v -q` with --name declaring two parameters and no default: the
\* record of --name holds v alone, and -q has the next record.
C11_Witness ==
    /\ pc = "done"
    /\ Len(result) = 2
    /\ result[1].ref_option = Opt.name
    /\ Len(forest.opt[Opt.name].parameters) = 2
    /\ result[1].values = << <<"v">> >>
    /\ result[1].valid = "not_enough_values"
    /\ result[2].argument.arg_type = "short_option"

\* The text names a top-level subcommand or a child of subcommand scope.
Resolvable(text, scope) ==
    \/ \E k \in 1..Len(forest.subcommands) : Named(forest.subcommands[k], text)
    \/ IF scope = nullptr THEN FALSE
       ELSE \E k \in 1..Len(forest.sub[scope].subcommands) :
                Named(forest.sub[scope].subcommands[k], text)

\* The number of consecutive regular tokens from zero-based index k on.
RECURSIVE ValueRun(_)
ValueRun(k) ==
    IF k >= Len(meta_args) THEN 0
    ELSE IF IsRegular(k) THEN 1 + ValueRun(k + 1)
    ELSE 0

C13_NoUnknown ==
    \A k \in 1..Len(result) :
        result[k].is_parsed
            => result[k].valid \in {"valid", "unrecognized_option",
                                    "unrecognized_subcommand", "not_enough_values"}

\* C14: no record references both an option and a subcommand; a record
\* references a template exactly when it is parsed with validity valid or
\* not_enough_values; a record without a reference has no values; a record
\* that is not parsed has validity valid.
C14_RecordShape ==
    \A k \in 1..Len(result) :
        /\ ~(result[k].ref_option /= nullptr /\ result[k].ref_subcommand /= nullptr)
        /\ HasTemplate(result[k])
             = (result[k].is_parsed /\ result[k].valid \in {"valid", "not_enough_values"})
        /\ ~HasTemplate(result[k]) => result[k].values = <<>>
        /\ ~result[k].is_parsed => result[k].valid = "valid"

\* `c -q --`: a subcommand record, an unrecognized option and an unparsed
\* record side by side.
C14_Witness ==
    /\ pc = "done"
    /\ Len(result) = 3
    /\ result[1].ref_subcommand = Sub.c
    /\ result[2].valid = "unrecognized_option"
    /\ ~result[3].is_parsed

\* The option template o has the name of the token at the cursor, compared
\* exactly or ignoring case.
NameOfToken ==
    IF Token.arg_type = "long_option"
    THEN SubSeq(Token.modified.text, 3, Len(Token.modified.text))
    ELSE SubSeq(Token.modified.text, 2, Len(Token.modified.text))

CarriesName(o, ignore_case) ==
    \/ /\ Token.arg_type \in {"long_option", "microsoft_switch"}
       /\ HasName(forest.opt[o].long_names, NameOfToken, ignore_case)
    \/ /\ Token.arg_type \in {"short_option", "microsoft_switch"}
       /\ Len(NameOfToken) = 1
       /\ HasName([n \in 1..Len(forest.opt[o].short_names) |-> <<forest.opt[o].short_names[n]>>],
                  NameOfToken, ignore_case)

Searched ==
    {NestedOptions[k] : k \in 1..Len(NestedOptions)}
        \cup {forest.options[k] : k \in 1..Len(forest.options)}

\* C20: a long or short option token is matched exactly when a searched
\* template carries its name in the exact case, whatever switch_ins is; a
\* switch token is matched exactly when a searched template carries its
\* name in the exact case or, with switch_ins set, in any case.
C20_CaseRule ==
    [][OptionStep
         => LET ignore_case == Token.arg_type = "microsoft_switch" /\ switch_ins
            IN  /\ (Emitted.ref_option /= nullptr)
                     = (\E o \in Searched : CarriesName(o, ignore_case))
                /\ Emitted.ref_option /= nullptr
                     => CarriesName(Emitted.ref_option, ignore_case)]_vars

\* `/Name --Name` with switch_ins set: the switch is matched to --name, the
\* long option is unrecognized.
C20_Witness ==
    /\ pc = "done"
    /\ switch_ins
    /\ args = << <<"/", "N", "a", "m", "e">>, <<"-", "-", "N", "a", "m", "e">> >>
    /\ result[1].ref_option = Opt.name
    /\ result[2].valid = "unrecognized_option"

(***************************************************************************)
(* source/parser.cpp: optrone::parse_arguments, the parser that throws.    *)
(* The state variables are shared with the record-returning parser: args   *)
(* and forest are the call's arguments, meta_args holds `tokens`,          *)
(* current_subcommand holds `nested`, i holds `index`, result holds        *)
(* `result`; pc is one of "validate", "tokenize", "loop", "returned",      *)
(* "threw", "aborted".                                                     *)
(***************************************************************************)
\* What name[1] reads one past the end of a one-character string_view when
\* the library does not check the index: the terminator of the string.
NUL == "NUL"

determine_type(value) ==
    IF starts_with(value, <<"/">>) THEN "switch_option"
    ELSE IF starts_with(value, <<"-", "-">>) THEN "long_option"
    ELSE IF starts_with(value, <<"-">>) THEN "short_option"
    ELSE "regular"

text_range(begin, length, pointer) ==
    [begin |-> begin, length |-> length, pointer |-> pointer]

token(value, type, range) == [value |-> value, type |-> type, range |-> range]

parser_parsed_argument(ref_option, ref_subcommand, values) ==
    [ref_option |-> ref_option, ref_subcommand |-> ref_subcommand,
     values |-> values]

parser_option_template(short_names, long_names, params, defaults, variadic) ==
    [short_names |-> short_names, long_names |-> long_names,
     params |-> params, defaults |-> defaults, variadic |-> variadic]

parser_subcommand_template(names, params, defaults, variadic, nested_options, nested_subcommands) ==
    [names |-> names, params |-> params, defaults |-> defaults,
     variadic |-> variadic, nested_options |-> nested_options,
     nested_subcommands |-> nested_subcommands]

\* Step 1 of tokenize for one argument: split at '=' or ':'.
TokenSplit(arg) ==
    LET type == determine_type(arg)
        pos == IF type = "long_option" \/ type = "short_option"
               THEN find_first_of(arg, "=")
               ELSE IF type = "switch_option"
               THEN find_first_of(arg, ":")
               ELSE npos
    IN  IF pos /= npos
        THEN << token(substr_n(arg, 0, pos), type, text_range(0, 0, 0)),
                token(substr(arg, pos + 1), "regular", text_range(0, 0, 0)) >>
        ELSE << token(arg, type, text_range(0, 0, 0)) >>

RECURSIVE SplitTokens(_)
SplitTokens(arguments) ==
    IF arguments = <<>> THEN <<>>
    ELSE TokenSplit(Head(arguments)) \o SplitTokens(Tail(arguments))

\* Step 2 of tokenize for one token: `-abc` to `-a`, `-b`, `-c`.
TokenExpand(tok) ==
    IF tok.type = "short_option" /\ Len(tok.value) > 2
    THEN [k \in 1..(Len(tok.value) - 1) |->
            token(<<"-", tok.value[k + 1]>>, "short_option", text_range(0, 0, 0))]
    ELSE << tok >>

RECURSIVE ExpandTokens(_)
ExpandTokens(tokens) ==
    IF tokens = <<>> THEN <<>>
    ELSE TokenExpand(Head(tokens)) \o ExpandTokens(Tail(tokens))

\* The range loop with `prev += length` in place of `prev += length + 1`.
RECURSIVE RangeBegin_no_separator(_, _)
RangeBegin_no_separator(tokens, k) ==
    IF k = 1 THEN 0
    ELSE RangeBegin_no_separator(tokens, k - 1) + Len(tokens[k - 1].value)

\* `prev` when the range loop reaches the token of one-based index k.
RECURSIVE RangeBegin(_, _)
RangeBegin(tokens, k) ==
    IF k = 1 THEN 0
    ELSE RangeBegin(tokens, k - 1) + Len(tokens[k - 1].value) + 1

AdjustRanges(tokens) ==
    [k \in 1..Len(tokens) |->
        token(tokens[k].value, tokens[k].type,
              text_range(RangeBegin(tokens, k), Len(tokens[k].value),
                         RangeBegin(tokens, k)))]

parser_tokenize(arguments) ==
    AdjustRanges(ExpandTokens(SplitTokens(arguments)))

\* The loop of construct_command_line: `command_line += " " + tok.value`.
RECURSIVE SpacedValues(_)
SpacedValues(tokens) ==
    IF tokens = <<>> THEN <<>>
    ELSE <<" ">> \o Head(tokens).value \o SpacedValues(Tail(tokens))

\* construct_command_line without the `substr(1)` of the leading space.
construct_command_line_unstripped(tokens) == SpacedValues(tokens)

construct_command_line(tokens) ==
    IF SpacedValues(tokens) /= <<>>
    THEN Tail(SpacedValues(tokens))
    ELSE SpacedValues(tokens)

str_to_lower(str) == [k \in 1..Len(str) |-> to_lower(str[k])]

isupper(c) == to_lower(c) /= c

contains(str, c) == \E k \in 1..Len(str) : str[k] = c

\* validate_option without the check of the short names' case.
validate_option_any_case(option) ==
    /\ ~(option.long_names = <<>> /\ option.short_names = <<>>)
    /\ \A n \in 1..Len(option.long_names) :
         LET long_name == option.long_names[n]
         IN  /\ ~(Len(long_name) < 2)
             /\ long_name = str_to_lower(long_name)
             /\ ~(contains(long_name, ":") \/ contains(long_name, "="))
             /\ ~(starts_with(long_name, <<"-">>) \/ starts_with(long_name, <<"/">>))
    /\ \A n \in 1..Len(option.short_names) :
         option.short_names[n] \notin {"-", "/", "=", ":"}
    /\ ~(Len(option.defaults) > Len(option.params))
    /\ ~(option.defaults /= <<>> /\ option.variadic)

\* validate_option returns (TRUE) or throws std::invalid_argument (FALSE).
validate_option(option) ==
    /\ ~(option.long_names = <<>> /\ option.short_names = <<>>)
    /\ \A n \in 1..Len(option.long_names) :
         LET long_name == option.long_names[n]
         IN  /\ ~(Len(long_name) < 2)
             /\ long_name = str_to_lower(long_name)
             /\ ~(contains(long_name, ":") \/ contains(long_name, "="))
             /\ ~(starts_with(long_name, <<"-">>) \/ starts_with(long_name, <<"/">>))
    /\ \A n \in 1..Len(option.short_names) :
         /\ ~isupper(option.short_names[n])
         /\ option.short_names[n] \notin {"-", "/", "=", ":"}
    /\ ~(Len(option.defaults) > Len(option.params))
    /\ ~(option.defaults /= <<>> /\ option.variadic)

\* validate_subcommand returns (TRUE) or throws std::invalid_argument.
RECURSIVE validate_subcommand(_, _)
validate_subcommand(f, subcommand) ==
    LET t == f.sub[subcommand]
    IN  /\ t.names /= <<>>
        /\ \A n \in 1..Len(t.names) :
             /\ t.names[n] = str_to_lower(t.names[n])
             /\ ~(contains(t.names[n], ":") \/ contains(t.names[n], "="))
             /\ ~(starts_with(t.names[n], <<"-">>) \/ starts_with(t.names[n], <<"/">>))
        /\ ~(Len(t.defaults) > Len(t.params))
        /\ ~(t.defaults /= <<>> /\ t.variadic)
        /\ ~(t.nested_subcommands /= <<>> /\ t.variadic)
        /\ ~(t.defaults /= <<>> /\ t.nested_subcommands /= <<>>)
        /\ \A n \in 1..Len(t.nested_options) :
             validate_option(f.opt[t.nested_options[n]])
        /\ \A n \in 1..Len(t.nested_subcommands) :
             validate_subcommand(f, t.nested_subcommands[n])

\* validate_templates accepting a forest whose top-level options are bad.
validate_templates_subcommands_only(f) ==
    \A n \in 1..Len(f.subcommands) : validate_subcommand(f, f.subcommands[n])

validate_templates(f) ==
    /\ \A n \in 1..Len(f.options) : validate_option(f.opt[f.options[n]])
    /\ \A n \in 1..Len(f.subcommands) : validate_subcommand(f, f.subcommands[n])

find_long_name(f, long_name, options) ==
    FirstHit(options,
        {k \in 1..Len(options) :
            \E n \in 1..Len(f.opt[options[k]].long_names) :
                str_to_lower(long_name) = f.opt[options[k]].long_names[n]})

find_short_name(f, short_name, options) ==
    FirstHit(options,
        {k \in 1..Len(options) :
            \E n \in 1..Len(f.opt[options[k]].short_names) :
                to_lower(short_name) = f.opt[options[k]].short_names[n]})

\* name[1] of a one-character view is a read past its end: here it is the
\* terminator; the other outcome is the action ParserOutOfBounds.
find_option(f, name, type, options) ==
    IF type = "long_option"
    THEN find_long_name(f, substr(name, 2), options)
    ELSE IF type = "short_option"
    THEN find_short_name(f, IF Len(name) >= 2 THEN name[2] ELSE NUL, options)
    ELSE IF type = "switch_option"
    THEN (IF Len(name) = 2
          THEN find_short_name(f, name[2], options)
          ELSE find_long_name(f, substr(name, 1), options))
    ELSE nullptr

\* Depth first: a subcommand's own names, then its nested subcommands, then
\* the next subcommand of the list.
RECURSIVE find_subcommand_name(_, _, _)
find_subcommand_name(f, name, subcommands) ==
    IF subcommands = <<>> THEN nullptr
    ELSE LET subcommand == Head(subcommands)
         IN  IF \E n \in 1..Len(f.sub[subcommand].names) :
                    str_to_lower(name) = f.sub[subcommand].names[n]
             THEN subcommand
             ELSE LET found == find_subcommand_name(f, name,
                                   f.sub[subcommand].nested_subcommands)
                  IN  IF found /= nullptr THEN found
                      ELSE find_subcommand_name(f, name, Tail(subcommands))

\* The number of regular tokens from zero-based index on, at most limit.
RECURSIVE RegularRun(_, _, _)
RegularRun(tokens, index, limit) ==
    IF limit > 0 /\ index < Len(tokens) /\ tokens[index + 1].type = "regular"
    THEN 1 + RegularRun(tokens, index + 1, limit - 1)
    ELSE 0

\* parser_collect_values without the variadic loop.
parser_collect_values_no_tail(index, tokens, params, defaults, variadic) ==
    LET count == RegularRun(tokens, index, Len(params))
        first == (count - Len(params) + Len(defaults)) % SizeModulus
        last == Len(defaults)
    IN  [values |-> [k \in 1..count |-> tokens[index + k].value]
                        \o (IF first < last THEN subordinate(defaults, first, last) ELSE <<>>),
         index |-> index + count]

\* collect_values of source/parser.cpp: [values, index], index by reference.
parser_collect_values(index, tokens, params, defaults, variadic) ==
    LET count == RegularRun(tokens, index, Len(params))
        first == (count - Len(params) + Len(defaults)) % SizeModulus
        last == Len(defaults)
        tail == IF variadic
                THEN RegularRun(tokens, index + count, Len(tokens))
                ELSE 0
    IN  [values |-> [k \in 1..count |-> tokens[index + k].value]
                        \o (IF first < last THEN subordinate(defaults, first, last) ELSE <<>>)
                        \o [k \in 1..tail |-> tokens[index + count + k].value],
         index |-> index + count + tail]

\* One pass of the token loop: thrown is "none" or the argument_error.
ParserIteration(thrown, rec, index, nested) ==
    [thrown |-> thrown, rec |-> rec, index |-> index, nested |-> nested]

parser_regular(f, tokens, index, nested) ==
    LET tok == tokens[index + 1]
        in_nested == IF nested /= nullptr
                     THEN find_subcommand_name(f, tok.value, <<nested>>)
                     ELSE nullptr
        matched == IF in_nested /= nullptr THEN in_nested
                   ELSE find_subcommand_name(f, tok.value, f.subcommands)
    IN  IF matched = nullptr
        THEN ParserIteration("Unrecognized subcommand", <<>>, index, nullptr)
        ELSE LET got == parser_collect_values(index + 1, tokens,
                            f.sub[matched].params, f.sub[matched].defaults,
                            f.sub[matched].variadic)
             IN  IF Len(got.values) < Len(f.sub[matched].params)
                 THEN ParserIteration("Too vew values provided for parameters",
                                      <<>>, got.index,
                                      IF in_nested /= nullptr THEN nested ELSE nullptr)
                 ELSE ParserIteration("none",
                         parser_parsed_argument(nullptr, matched, got.values),
                         got.index, matched)

parser_option(f, tokens, index, nested) ==
    LET tok == tokens[index + 1]
        in_nested == IF nested /= nullptr
                     THEN find_option(f, tok.value, tok.type,
                                      f.sub[nested].nested_options)
                     ELSE nullptr
        matched == IF in_nested /= nullptr THEN in_nested
                   ELSE find_option(f, tok.value, tok.type, f.options)
    IN  IF matched = nullptr
        THEN ParserIteration("Unrecognized option", <<>>, index, nested)
        ELSE LET got == parser_collect_values(index + 1, tokens,
                            f.opt[matched].params, f.opt[matched].defaults,
                            f.opt[matched].variadic)
             IN  IF Len(got.values) < Len(f.opt[matched].params)
                 THEN ParserIteration("Too vew values provided for parameters",
                                      <<>>, got.index, nested)
                 ELSE ParserIteration("none",
                         parser_parsed_argument(matched, nullptr, got.values),
                         got.index, nested)

(***************************************************************************)
(* Template forests and arguments of source/parser.cpp                     *)
(***************************************************************************)
ParserParams == { [k \in 1..n |-> <<"p">>] : n \in 0..MaxParams }

POpt == [name |-> 1, x |-> 2, a_x |-> 3]

PSub == [a |-> 1, a_b |-> 2, c |-> 3, a_b_d |-> 4]

\* Global options --name/-n (taking P, D, V) and -x; subcommand a with the
\* nested option -x and the nested subcommand b, which nests d; subcommand
\* c (taking P, D, V).
ParserForest(P, D, V) ==
    [opt |-> << parser_option_template(<<"n">>, << <<"n", "a", "m", "e">> >>, P, D, V),
                parser_option_template(<<"x">>, <<>>, <<>>, <<>>, FALSE),
                parser_option_template(<<"x">>, <<>>, <<>>, <<>>, FALSE) >>,
     sub |-> << parser_subcommand_template(<< <<"a">> >>, <<>>, <<>>, FALSE,
                                           <<POpt.a_x>>, <<PSub.a_b>>),
                parser_subcommand_template(<< <<"b">> >>, <<>>, <<>>, FALSE,
                                           <<>>, <<PSub.a_b_d>>),
                parser_subcommand_template(<< <<"c">> >>, P, D, V, <<>>, <<>>),
                parser_subcommand_template(<< <<"d">> >>, <<>>, <<>>, FALSE,
                                           <<>>, <<>>) >>,
     options |-> <<POpt.name, POpt.x>>,
     subcommands |-> <<PSub.a, PSub.c>>]

\* The forests of that shape that validate_templates accepts.
ParserForests ==
    { ParserForest(P, D, V) : <<P, D, V>> \in
        { t \in ParserParams \X DefaultLists \X BOOLEAN :
            Len(t[2]) <= Len(t[1]) /\ ~(t[2] /= <<>> /\ t[3]) } }

ShortNameLists ==
    { <<>>, <<"n">>, <<"N">>, <<"-">>, <<"/">>, <<"=">>, <<":">>, <<"n", "N">> }

LongNameLists ==
    { <<>>, << <<"n", "a", "m", "e">> >>, << <<"n">> >>,
      << <<"N", "a", "m", "e">> >>, << <<"n", "a", "=">> >>,
      << <<"n", "a", ":">> >>, << <<"-", "n">> >>, << <<"/", "n">> >>,
      << <<"n", "a", "m", "e">>, <<"n">> >> }

\* Option templates, each sound or with one or more things wrong.
OptionCandidates ==
    { parser_option_template(sn, ln, <<>>, <<>>, FALSE) :
        sn \in ShortNameLists, ln \in LongNameLists }
    \cup { parser_option_template(<<"n">>, <<>>, P, D, V) :
        P \in ParserParams, D \in DefaultLists, V \in BOOLEAN }

SubcommandNameLists ==
    { <<>>, << <<"c">> >>, << <<"N">> >>, << <<"n", "=">> >>,
      << <<"n", ":">> >>, << <<"-", "n">> >>, << <<"/", "n">> >>,
      << <<>> >>, << <<"c">>, <<"a", "N">> >> }

\* names, params, defaults and variadic of a subcommand template.
SubcommandCandidates ==
    { [names |-> nm, params |-> <<>>, defaults |-> <<>>, variadic |-> FALSE] :
        nm \in SubcommandNameLists }
    \cup { [names |-> << <<"c">> >>, params |-> P, defaults |-> D, variadic |-> V] :
        P \in ParserParams, D \in DefaultLists, V \in BOOLEAN }

BaseForest == ParserForest(<< <<"p">> >>, <<>>, FALSE)

WithOption(k, t) == [BaseForest EXCEPT !.opt[k] = t]

WithSubcommand(k, t) ==
    [BaseForest EXCEPT !.sub[k] =
        parser_subcommand_template(t.names, t.params, t.defaults, t.variadic,
            BaseForest.sub[k].nested_options,
            BaseForest.sub[k].nested_subcommands)]

\* The base forest with one option or one subcommand replaced.
ValidationForests ==
    { WithOption(k, t) : k \in {POpt.name, POpt.a_x}, t \in OptionCandidates }
    \cup { WithSubcommand(k, t) : k \in {PSub.a, PSub.a_b, PSub.c, PSub.a_b_d},
                                  t \in SubcommandCandidates }

ValidatePool == { <<"-", "n">>, <<"c">>, <<"v">>, <<"-">> }

ParserPool ==
    { <<"-", "n">>, <<"-", "x", "n">>, <<"-", "q">>, <<"a">>, <<"c">>,
      <<"v">>, <<"w">>, <<"-">> }

ParserCalled(pool, forests) ==
    /\ args \in ArgLists(pool)
    /\ forest \in forests
    /\ switch_ins = FALSE
    /\ pc = "validate"
    /\ raised = "none"
    /\ meta_args_1 = <<>>
    /\ meta_args_2 = <<>>
    /\ meta_args = <<>>
    /\ current_subcommand = nullptr
    /\ result = <<>>
    /\ i = 0
    /\ cmd_line = <<>>
    /\ string = <<>>
    /\ width = 0
    /\ lines = <<>>

InitParser == ParserCalled(ParserPool, ParserForests)

InitValidate == ParserCalled(ValidatePool, ValidationForests)

(***************************************************************************)
(* Steps of optrone::parse_arguments                                       *)
(***************************************************************************)
\* ParserValidate going on to tokenize whatever the forest is.
ParserValidate_skipped ==
    /\ pc = "validate"
    /\ pc' = "tokenize"
    /\ UNCHANGED <<cmd_line, string, width, lines, args, forest, switch_ins, raised, meta_args_1, meta_args_2,
                   meta_args, current_subcommand, result, i>>

ParserValidate ==
    /\ pc = "validate"
    /\ IF validate_templates(forest)
       THEN pc' = "tokenize" /\ raised' = raised
       ELSE pc' = "threw" /\ raised' = "invalid_argument"
    /\ UNCHANGED <<cmd_line, string, width, lines, args, forest, switch_ins, meta_args_1, meta_args_2,
                   meta_args, current_subcommand, result, i>>

ParserTokenize ==
    /\ pc = "tokenize"
    /\ meta_args' = parser_tokenize(args)
    /\ cmd_line' = construct_command_line(meta_args')
    /\ pc' = "loop"
    /\ UNCHANGED <<string, width, lines, args, forest, switch_ins, raised, meta_args_1, meta_args_2,
                   current_subcommand, result, i>>

\* What a pass of the loop leaves: a record more, or the exception, which
\* unwinds the local result.
ParserStep(it) ==
    /\ IF it.thrown = "none"
       THEN /\ result' = Append(result, it.rec)
            /\ pc' = pc
            /\ raised' = raised
       ELSE /\ result' = <<>>
            /\ pc' = "threw"
            /\ raised' = "argument_error"
    /\ i' = it.index
    /\ current_subcommand' = it.nested
    /\ UNCHANGED <<cmd_line, string, width, lines, args, forest, switch_ins, meta_args_1, meta_args_2, meta_args>>

AtParserToken == pc = "loop" /\ i < Len(meta_args)

ParserRegular ==
    /\ AtParserToken
    /\ meta_args[i + 1].type = "regular"
    /\ ParserStep(parser_regular(forest, meta_args, i, current_subcommand))

ParserOption ==
    /\ AtParserToken
    /\ meta_args[i + 1].type \in {"long_option", "short_option", "switch_option"}
    /\ ParserStep(parser_option(forest, meta_args, i, current_subcommand))

\* find_option reads name[1] of the one-character token "-": with a library
\* that checks the index the process is aborted.
ParserOutOfBounds ==
    /\ AtParserToken
    /\ meta_args[i + 1].type = "short_option"
    /\ Len(meta_args[i + 1].value) < 2
    /\ pc' = "aborted"
    /\ UNCHANGED <<cmd_line, string, width, lines, args, forest, switch_ins, raised, meta_args_1, meta_args_2,
                   meta_args, current_subcommand, result, i>>

ParserReturn ==
    /\ pc = "loop"
    /\ i >= Len(meta_args)
    /\ pc' = "returned"
    /\ UNCHANGED <<cmd_line, string, width, lines, args, forest, switch_ins, raised, meta_args_1, meta_args_2,
                   meta_args, current_subcommand, result, i>>

ParserNext ==
    \/ ParserValidate
    \/ ParserTokenize
    \/ ParserRegular
    \/ ParserOption
    \/ ParserOutOfBounds
    \/ ParserReturn

SpecParser == InitParser /\ [][ParserNext]_vars

SpecValidate == InitValidate /\ [][ParserNext]_vars

(***************************************************************************)
(* Properties of optrone::parse_arguments                                  *)
(***************************************************************************)
UpperCase == {"A", "N", "X", "Y"}

BadNameText(name) ==
    \/ \E k \in 1..Len(name) : name[k] \in UpperCase \cup {"=", ":"}
    \/ IF name = <<>> THEN FALSE ELSE name[1] \in {"-", "/"}

\* What makes an option template invalid.
OptionBad(t) ==
    \/ t.short_names = <<>> /\ t.long_names = <<>>
    \/ \E n \in 1..Len(t.long_names) :
         Len(t.long_names[n]) < 2 \/ BadNameText(t.long_names[n])
    \/ \E n \in 1..Len(t.short_names) :
         t.short_names[n] \in UpperCase \cup {"-", "/", "=", ":"}
    \/ Len(t.defaults) > Len(t.params)
    \/ t.defaults /= <<>> /\ t.variadic

\* What makes the subcommand s, or one nested in it at any depth, invalid.
RECURSIVE SubcommandBad(_)
SubcommandBad(s) ==
    LET t == forest.sub[s]
    IN  \/ t.names = <<>>
        \/ \E n \in 1..Len(t.names) : BadNameText(t.names[n])
        \/ Len(t.defaults) > Len(t.params)
        \/ t.defaults /= <<>> /\ t.variadic
        \/ t.variadic /\ t.nested_subcommands /= <<>>
        \/ t.defaults /= <<>> /\ t.nested_subcommands /= <<>>
        \/ \E n \in 1..Len(t.nested_options) : OptionBad(forest.opt[t.nested_options[n]])
        \/ \E n \in 1..Len(t.nested_subcommands) : SubcommandBad(t.nested_subcommands[n])

SomeSubcommandBad ==
    \E n \in 1..Len(forest.subcommands) : SubcommandBad(forest.subcommands[n])

SomeGlobalOptionBad ==
    \E n \in 1..Len(forest.options) : OptionBad(forest.opt[forest.options[n]])

Rejected == pc = "threw" /\ raised = "invalid_argument"

\* C15: with a forest that breaks a structural rule the call gets no
\* further than the validation: it throws std::invalid_argument, never
\* argument_error, with no token made and no record produced.
C15_InvalidForestRaisesFirst ==
    (SomeSubcommandBad \/ SomeGlobalOptionBad)
        => /\ pc \in {"validate", "threw"}
           /\ pc = "threw" => raised = "invalid_argument"
           /\ raised /= "argument_error"
           /\ meta_args = <<>>
           /\ result = <<>>
           /\ i = 0

\* An invalid forest was rejected although the only argument names no
\* subcommand.
C15_Witness ==
    /\ Rejected
    /\ SomeGlobalOptionBad
    /\ args = << <<"v">> >>

\* C16: validate_option throws for exactly the option templates with no
\* name at all, a long name shorter than 2 characters, not lowercase,
\* containing '=' or ':' or starting with '-' or '/', a short name that is
\* uppercase or one of '-', '/', '=', ':', more defaults than parameters, or
\* defaults together with variadic; a forest holding such an option is
\* rejected.
C16_OptionRejectedIff ==
    /\ \A k \in 1..Len(forest.opt) :
         validate_option(forest.opt[k]) = ~OptionBad(forest.opt[k])
    /\ (pc /= "validate" /\ \E k \in 1..Len(forest.opt) : OptionBad(forest.opt[k]))
         => Rejected

\* A global option whose only fault is an uppercase short name has been
\* rejected.
C16_Witness ==
    /\ Rejected
    /\ forest.opt[POpt.name].short_names = <<"N">>
    /\ forest.opt[POpt.name].long_names = << <<"n", "a", "m", "e">> >>

\* C17 as stated: a forest is rejected exactly when some subcommand
\* reachable in it is invalid.
C17_RejectedIffSubcommand ==
    pc /= "validate" => (Rejected = SomeSubcommandBad)

\* C17 amended: a forest is rejected exactly when some subcommand reachable
\* in it is invalid or some top-level option is invalid.
C17_RejectedIffTemplate ==
    pc /= "validate" => (Rejected = (SomeSubcommandBad \/ SomeGlobalOptionBad))

\* A forest was rejected for a subcommand without names at the third level.
C17_Witness ==
    /\ Rejected
    /\ forest.sub[PSub.a_b_d].names = <<>>
    /\ ~SomeGlobalOptionBad

ParserToken == meta_args[i + 1]

\* The text names a subcommand of the list or one nested in it at any depth.
RECURSIVE NamedWithin(_, _)
NamedWithin(list, text) ==
    \E n \in 1..Len(list) :
        \/ \E m \in 1..Len(forest.sub[list[n]].names) :
              forest.sub[list[n]].names[m] = str_to_lower(text)
        \/ NamedWithin(forest.sub[list[n]].nested_subcommands, text)

\* The template the token at the cursor is matched to: its params,
\* defaults and variadic, or found = FALSE.
Target ==
    IF ParserToken.type = "regular"
    THEN LET inner == IF current_subcommand = nullptr THEN nullptr
                      ELSE find_subcommand_name(forest, ParserToken.value, <<current_subcommand>>)
             m == IF inner /= nullptr THEN inner
                  ELSE find_subcommand_name(forest, ParserToken.value, forest.subcommands)
         IN  IF m = nullptr THEN [found |-> FALSE]
             ELSE [found |-> TRUE, option |-> nullptr, subcommand |-> m,
                   params |-> forest.sub[m].params,
                   defaults |-> forest.sub[m].defaults,
                   variadic |-> forest.sub[m].variadic]
    ELSE LET inner == IF current_subcommand = nullptr THEN nullptr
                      ELSE find_option(forest, ParserToken.value, ParserToken.type,
                                       forest.sub[current_subcommand].nested_options)
             m == IF inner /= nullptr THEN inner
                  ELSE find_option(forest, ParserToken.value, ParserToken.type, forest.options)
         IN  IF m = nullptr THEN [found |-> FALSE]
             ELSE [found |-> TRUE, option |-> m, subcommand |-> nullptr,
                   params |-> forest.opt[m].params,
                   defaults |-> forest.opt[m].defaults,
                   variadic |-> forest.opt[m].variadic]

\* The number of consecutive regular tokens after the token at the cursor.
RECURSIVE Following(_)
Following(k) ==
    IF k >= Len(meta_args) THEN 0
    ELSE IF meta_args[k + 1].type = "regular" THEN 1 + Following(k + 1)
    ELSE 0

\* The token at the cursor is unrecognized, or its template gets fewer
\* values, explicit and default, than it has parameters.
TokenFails ==
    IF ~Target.found THEN TRUE
    ELSE LET p == Len(Target.params)
             d == Len(Target.defaults)
             n == Following(i + 1)
         IN  n < p - d

RecordSound(rec) ==
    /\ (rec.ref_option /= nullptr) /= (rec.ref_subcommand /= nullptr)
    /\ IF rec.ref_option /= nullptr
       THEN Len(rec.values) >= Len(forest.opt[rec.ref_option].params)
       ELSE Len(rec.values) >= Len(forest.sub[rec.ref_subcommand].params)

\* C18: with a valid forest every pass of the token loop either throws
\* argument_error, when the token is unrecognized or short of values, and
\* then no record is returned, or appends one sound record; the call ends by
\* returning sound records or by throwing argument_error.
C18_RaisesAtFirstBadToken ==
    /\ [](pc \in {"validate", "tokenize", "loop", "returned", "threw"})
    /\ [](pc = "threw" => raised = "argument_error" /\ result = <<>>)
    /\ [](pc = "returned" => \A k \in 1..Len(result) : RecordSound(result[k]))
    /\ [][AtParserToken
            => IF TokenFails
               THEN pc' = "threw" /\ raised' = "argument_error" /\ result' = <<>>
               ELSE /\ pc' = "loop"
                    /\ Len(result') = Len(result) + 1
                    /\ SubSeq(result', 1, Len(result)) = result
                    /\ RecordSound(result'[Len(result')])]_vars

\* The claim of C18 for the passes in which find_option reads inside the
\* token.
C18_ApartFromOutOfBounds ==
    /\ [](pc = "threw" => raised = "argument_error" /\ result = <<>>)
    /\ [](pc = "returned" => \A k \in 1..Len(result) : RecordSound(result[k]))
    /\ [][(AtParserToken /\ pc' /= "aborted")
            => IF TokenFails
               THEN pc' = "threw" /\ raised' = "argument_error" /\ result' = <<>>
               ELSE /\ pc' = "loop"
                    /\ Len(result') = Len(result) + 1
                    /\ SubSeq(result', 1, Len(result)) = result
                    /\ RecordSound(result'[Len(result')])]_vars

\* C19: a variadic template with p parameters followed by n consecutive
\* regular tokens gets a record whose values are those n tokens in order
\* when n >= p, and throws argument_error when n < p.
C19_VariadicTakesAll ==
    [][(IF AtParserToken /\ pc' /= "aborted"
        THEN (IF Target.found THEN Target.variadic ELSE FALSE)
        ELSE FALSE)
         => LET p == Len(Target.params)
                n == Following(i + 1)
            IN  IF n >= p
                THEN /\ pc' = "loop"
                     /\ Len(result') = Len(result) + 1
                     /\ result'[Len(result')].ref_option = Target.option
                     /\ result'[Len(result')].ref_subcommand = Target.subcommand
                     /\ result'[Len(result')].values
                            = [k \in 1..n |-> meta_args[i + 1 + k].value]
                     /\ i' = i + 1 + n
                ELSE pc' = "threw" /\ raised' = "argument_error"]_vars

\* `-n v w` with -n variadic and one parameter: v fills the parameter and w
\* is the variadic tail.
C19_Witness ==
    /\ pc = "returned"
    /\ forest.opt[POpt.name].variadic
    /\ Len(forest.opt[POpt.name].params) = 1
    /\ Len(result) = 1
    /\ result[1].ref_option = POpt.name
    /\ result[1].values = << <<"v">>, <<"w">> >>

(***************************************************************************)
(* Switches of the legacy parser                                           *)
(***************************************************************************)
\* A forest whose only option with the name x has it as a long name, and whose
\* option -n also has the long name n of another option's short name.
LongOnlyForest ==
    [Forest(<<>>, <<>>) EXCEPT
        !.options = <<Opt.name, Opt.a_long_x, Opt.n2>>,
        !.sub[Sub.a].subcommand_options = <<Opt.a_long_x>>]

SwitchForests == { Forest(<<>>, <<>>), LongOnlyForest }

\* Switches of two and more characters in both cases, a subcommand, a bare
\* hyphen and the terminator.
SwitchPool ==
    { <<"/", "x">>, <<"/", "X">>, <<"/", "n">>, <<"/", "n", "a", "m", "e">>,
      <<"/", "N", "a", "m", "e">>, <<"a">>, <<"-">>, DoubleHyphen }

InitSwitch == Called(SwitchPool, SwitchForests, BOOLEAN)

SpecSwitch == InitSwitch /\ [][Next]_vars

SwitchStep ==
    IF pc = "parse" /\ ~LoopEnds(meta_args, i)
    THEN Token.arg_type = "microsoft_switch"
    ELSE FALSE

\* The text of the switch at the cursor after its slash.
SwitchName == SubSeq(Token.modified.text, 2, Len(Token.modified.text))

SameName(a, b) == a = b \/ (switch_ins /\ is_equal_ins(a, b))

ShortOf(o) == [n \in 1..Len(forest.opt[o].short_names) |-> <<forest.opt[o].short_names[n]>>]

RECURSIVE FirstWithShort(_)
FirstWithShort(list) ==
    IF list = <<>> THEN nullptr
    ELSE IF \E n \in 1..Len(ShortOf(Head(list))) : SameName(ShortOf(Head(list))[n], SwitchName)
    THEN Head(list)
    ELSE FirstWithShort(Tail(list))

RECURSIVE FirstWithLong(_)
FirstWithLong(list) ==
    IF list = <<>> THEN nullptr
    ELSE IF \E n \in 1..Len(forest.opt[Head(list)].long_names) : SameName(forest.opt[Head(list)].long_names[n], SwitchName)
    THEN Head(list)
    ELSE FirstWithLong(Tail(list))

\* What a switch resolves to in one list.
SwitchIn(list) ==
    IF Len(SwitchName) = 1 /\ FirstWithShort(list) /= nullptr
    THEN FirstWithShort(list)
    ELSE FirstWithLong(list)

\* C21: a two-character switch /x resolves, in the searched list, to the
\* first option with the short name x and only if there is none to the first
\* option with the long name x; a longer switch resolves to the first option
\* with that long name, whatever the short names are.
C21_SwitchShortThenLong ==
    [][SwitchStep
         => /\ OneRecord
            /\ Emitted.argument = Token
            /\ Emitted.ref_option =
                   IF SwitchIn(NestedOptions) /= nullptr
                   THEN SwitchIn(NestedOptions)
                   ELSE SwitchIn(forest.options)]_vars

\* `a /x` where a nests --x before -x resolves to the option with the short
\* name; `/x` where the only x is a long name resolves to that option.
C21_Witness ==
    /\ pc = "done"
    /\ Len(result) = 2
    /\ result[1].ref_subcommand = Sub.a
    /\ result[2].argument.arg_type = "microsoft_switch"
    /\ result[2].argument.modified.text = <<"/", "x">>
    /\ \/ forest = Forest(<<>>, <<>>) /\ result[2].ref_option = Opt.a_x
       \/ forest = LongOnlyForest /\ result[2].ref_option = Opt.a_long_x

(***************************************************************************)
(* Termination of the two parsers                                          *)
(***************************************************************************)
\* An option that takes values, a value, a bare hyphen and the terminator.
LoopPool ==
    { <<"-", "-", "n", "a", "m", "e">>, <<"v">>, <<"-">>, DoubleHyphen }

\* One parameter, a parameter before a variadic one, and two parameters of
\* which the last has a default.
LoopForests ==
    { Forest(<< <<"p">> >>, <<>>),
      Forest(<< <<"p">>, Ellipsis >>, <<>>),
      Forest(<< <<"p">>, <<"p">> >>, << DefaultValue(0) >>) }

\* A short option that takes values, combined short options, a value and a
\* bare hyphen.
ParserLoopPool ==
    { <<"-", "n">>, <<"-", "x", "n">>, <<"v">>, <<"-">> }

ParserLoopForests ==
    { ParserForest(<< <<"p">> >>, <<>>, FALSE),
      ParserForest(<< <<"p">> >>, <<>>, TRUE),
      ParserForest(<< <<"p">>, <<"p">> >>, << DefaultValue(0) >>, FALSE) }

\* One call of either parse_arguments.
InitBoth ==
    \/ Called(LoopPool, LoopForests, {TRUE})
    \/ ParserCalled(ParserLoopPool, ParserLoopForests)

BothNext ==
    \/ Next
    \/ ParserNext

SpecBoth == InitBoth /\ [][BothNext]_vars

\* A call runs on its own thread of control until it returns or throws.
FairBoth == SpecBoth /\ WF_vars(BothNext)

Ended == pc \in {"done", "returned", "threw", "aborted"}

\* The values of a record that are not defaults of its template: the tokens
\* collected for it.
Collected(rec, defaults) ==
    Cardinality({k \in 1..Len(rec.values) :
                    \A n \in 1..Len(defaults) : defaults[n] /= rec.values[k]})

LegacyCollected ==
    IF HasTemplate(Emitted)
    THEN Collected(Emitted, TemplateOf(Emitted).defaults)
    ELSE 0

ParserCollected ==
    IF Emitted.ref_option /= nullptr
    THEN Collected(Emitted, forest.opt[Emitted.ref_option].defaults)
    ELSE Collected(Emitted, forest.sub[Emitted.ref_subcommand].defaults)

LegacyIteration == pc = "parse" /\ ~LoopEnds(meta_args, i)

ParserLoopIteration == pc = "loop" /\ pc' = "loop"

\* C22: both parsers end (return, throw, or are aborted by the library's
\* index check); every completed iteration of the main loop emits one record
\* and moves the cursor by one plus the number of tokens collected as the
\* record's values; the cursor never moves backwards and never passes the end
\* of the token list.
C22_CursorAdvances ==
    /\ [](i <= Len(meta_args) \/ pc \in {"sanity", "split", "short", "adjust", "validate", "tokenize"})
    /\ [][i' >= i]_vars
    /\ [][LegacyIteration => OneRecord /\ i' = i + 1 + LegacyCollected]_vars
    /\ [][ParserLoopIteration => OneRecord /\ i' = i + 1 + ParserCollected]_vars
    /\ <>Ended

\* A legacy call that returned after a record with two collected values, or
\* a call of the new parser that did.
C22_Witness ==
    /\ pc \in {"done", "returned"}
    /\ Len(result) = 1
    /\ Len(result[1].values) = 2
    /\ i = 3
    /\ Len(meta_args) = 3

(***************************************************************************)
(* Tokens and the reconstructed command line                               *)
(***************************************************************************)
\* Arguments that are split, expanded or kept whole.
TokenPool ==
    { <<"-", "-", "n", "a", "m", "e", "=", "v">>, <<"-", "x", "n">>,
      <<"/", "n", ":", "v">>, <<"-", "n">>, <<"c">>, <<"v">>, <<"-">>, <<>> }

InitTokens == ParserCalled(TokenPool, ParserLoopForests)

SpecTokens == InitTokens /\ [][ParserNext]_vars

\* The strings with one space between neighbours.
RECURSIVE Joined(_)
Joined(strings) ==
    IF strings = <<>> THEN <<>>
    ELSE IF Len(strings) = 1 THEN strings[1]
    ELSE strings[1] \o <<" ">> \o Joined(Tail(strings))

TokenValues == [k \in 1..Len(meta_args) |-> meta_args[k].value]

\* tokenize has run in this call.
Tokenized ==
    pc \in {"loop", "returned", "aborted"} \/ (pc = "threw" /\ raised = "argument_error")

\* The argument yields one token with the argument as its value.
KeptWhole(arg) ==
    LET lead == IF arg = <<>> THEN "" ELSE arg[1]
    IN  /\ lead = "-" => (\A k \in 1..Len(arg) : arg[k] /= "=")
        /\ lead = "/" => (\A k \in 1..Len(arg) : arg[k] /= ":")
        /\ (lead = "-" /\ Len(arg) > 2) => arg[2] = "-"

\* C23 as stated: the reconstructed command line is the raw arguments joined
\* with single spaces, whether or not arguments were split or expanded.
C23_RawArgumentsJoined == Tokenized => cmd_line = Joined(args)

\* C23 amended: the reconstructed command line is the token values joined
\* with single spaces, and it is the raw arguments joined with single spaces
\* exactly when no argument was split or expanded.
C23_TokenValuesJoined ==
    Tokenized
      => /\ cmd_line = Joined(TokenValues)
         /\ (cmd_line = Joined(args)) = (\A k \in 1..Len(args) : KeptWhole(args[k]))

\* `--name=v -xn`: four tokens, and the line has neither the `=` nor `-xn`.
C23_Witness ==
    /\ Tokenized
    /\ args = << <<"-", "-", "n", "a", "m", "e", "=", "v">>, <<"-", "x", "n">> >>
    /\ Len(meta_args) = 4
    /\ cmd_line = <<"-", "-", "n", "a", "m", "e", " ", "v", " ", "-", "x", " ", "-", "n">>

\* The lengths, with their separators, of the tokens before the k-th.
RECURSIVE LengthsBefore(_)
LengthsBefore(k) ==
    IF k = 1 THEN 0
    ELSE LengthsBefore(k - 1) + meta_args[k - 1].range.length + 1

\* C24: every token's range has the length of its value, a pointer equal to
\* its begin, a begin equal to the sum of length + 1 over the earlier tokens,
\* and the reconstructed command line holds the token's value at that range.
C24_RangesLocateValues ==
    Tokenized
      => \A k \in 1..Len(meta_args) :
            /\ meta_args[k].range.length = Len(meta_args[k].value)
            /\ meta_args[k].range.pointer = meta_args[k].range.begin
            /\ meta_args[k].range.begin = LengthsBefore(k)
            /\ meta_args[k].range.begin + meta_args[k].range.length <= Len(cmd_line)
            /\ SubSeq(cmd_line, meta_args[k].range.begin + 1,
                      meta_args[k].range.begin + meta_args[k].range.length)
                  = meta_args[k].value

\* `-xn v`: the value v is the third token and begins at offset 6.
C24_Witness ==
    /\ Tokenized
    /\ args = << <<"-", "x", "n">>, <<"v">> >>
    /\ Len(meta_args) = 3
    /\ meta_args[3].value = <<"v">>
    /\ meta_args[3].range.begin = 6
    /\ meta_args[3].range.length = 1

(***************************************************************************)
(* Nested subcommands of the new parser                                    *)
(***************************************************************************)
\* The top-level subcommands a and c, a's child b, b's child d, an option and
\* a bare hyphen.
NestedPool ==
    { <<"a">>, <<"b">>, <<"c">>, <<"d">>, <<"-", "x">>, <<"-">> }

InitNested == ParserCalled(NestedPool, { ParserForest(<<>>, <<>>, FALSE) })

SpecNested == InitNested /\ [][ParserNext]_vars

ParserRegularStep ==
    IF pc = "loop" /\ i < Len(meta_args)
    THEN meta_args[i + 1].type = "regular"
    ELSE FALSE

ParserNamed(s, text) ==
    \E n \in 1..Len(forest.sub[s].names) : forest.sub[s].names[n] = text

RECURSIVE FirstParserNamed(_, _)
FirstParserNamed(list, text) ==
    IF list = <<>> THEN nullptr
    ELSE IF ParserNamed(Head(list), text) THEN Head(list)
    ELSE FirstParserNamed(Tail(list), text)

DirectChildren ==
    IF current_subcommand = nullptr THEN <<>>
    ELSE forest.sub[current_subcommand].nested_subcommands

\* The direct children of the scope, then the top-level list.
ChildThenTopLevel ==
    IF FirstParserNamed(DirectChildren, meta_args[i + 1].value) /= nullptr
    THEN FirstParserNamed(DirectChildren, meta_args[i + 1].value)
    ELSE FirstParserNamed(forest.subcommands, meta_args[i + 1].value)

\* C25: a regular token resolves to the first direct child of the active
\* scope with its name, else to the first top-level subcommand with its name,
\* and raises otherwise; so the name of a subcommand that is only nested is
\* matched while its parent is the scope and raises in every other scope.
C25_NestedOnlyUnderParent ==
    [][ParserRegularStep
         => IF ChildThenTopLevel = nullptr
            THEN pc' = "threw" /\ raised' = "argument_error"
            ELSE \/ pc' = "threw"
                 \/ /\ OneRecord
                    /\ Emitted.ref_subcommand = ChildThenTopLevel]_vars

(***************************************************************************)
(* The bare hyphen in the new parser                                       *)
(***************************************************************************)
Hyphen == <<"-">>

\* The token after the one at the cursor is a bare hyphen.
HyphenFollows ==
    IF pc = "loop" /\ i + 1 < Len(meta_args)
    THEN meta_args[i + 2].value = Hyphen
    ELSE FALSE

\* C26: a bare hyphen is a regular token; following a matched template with
\* one parameter it becomes the first value of the template's record; and no
\* step looks it up as an option, so none resolves or aborts on it.
C26_HyphenIsValue ==
    /\ [](\A k \in 1..Len(meta_args) :
            meta_args[k].value = Hyphen => meta_args[k].type = "regular")
    /\ [](pc /= "aborted")
    /\ [][(AtParserToken /\ HyphenFollows /\ Target.found /\ Len(Target.params) = 1)
            => /\ OneRecord
               /\ Len(Emitted.values) >= 1
               /\ Emitted.values[1] = Hyphen]_vars

(***************************************************************************)
(* Fixed parameters before a variadic one (legacy parser)                  *)
(***************************************************************************)
\* The step emits the record of a template with fixed parameters followed by
\* a variadic last parameter.
FixedThenVariadicStep ==
    IF TemplateStep
    THEN /\ Len(TemplateOf(Emitted).parameters) >= 2
         /\ is_parameter_variadic(TemplateOf(Emitted).parameters[Len(TemplateOf(Emitted).parameters)]) /= "not_variadic"
    ELSE FALSE

\* The values the template needs: one per fixed parameter, and one more when
\* the variadic parameter is one-or-more.
Needed(parameters) ==
    Len(parameters) - 1
      + (IF is_parameter_variadic(parameters[Len(parameters)]) = "one_or_more" THEN 1 ELSE 0)

\* C29: the record of a template with k >= 1 fixed parameters and a variadic
\* last one is valid only with at least k collected values (k + 1 when the
\* variadic parameter is one-or-more) and is not_enough_values with fewer.
C29_FixedBeforeVariadic ==
    [][FixedThenVariadicStep
         => IF Len(Emitted.values) >= Needed(TemplateOf(Emitted).parameters)
            THEN Emitted.valid = "valid"
            ELSE Emitted.valid = "not_enough_values"]_vars

(***************************************************************************)
(* Tokens and records of the legacy parser                                 *)
(***************************************************************************)
InitCover == Called(TermPool, LoopForests, {TRUE})

SpecCover == InitCover /\ [][Next]_vars

\* The number of tokens before the terminator or the unparsed tail.
ParsedTokens ==
    CHOOSE n \in 0..Len(meta_args) :
        /\ \A k \in 1..n : ~IsStop(meta_args[k].arg_type)
        /\ n = Len(meta_args) \/ IsStop(meta_args[n + 1].arg_type)

IsParsedRecord(rec) == rec.is_parsed

ParsedRecords == SelectSeq(result, IsParsedRecord)

\* The values of the record that were tokens.
ExplicitValues(rec) ==
    IF HasTemplate(rec)
    THEN Collected(rec, TemplateOf(rec).defaults)
    ELSE Len(rec.values)

RECURSIVE ExplicitTotal(_)
ExplicitTotal(records) ==
    IF records = <<>> THEN 0
    ELSE ExplicitValues(Head(records)) + ExplicitTotal(Tail(records))

\* From the token of zero-based index k and the record of one-based index r
\* on, each record originates at the next token and is followed by exactly
\* the tokens that are its explicit values, up to the last token.
RECURSIVE Covers(_, _)
Covers(k, r) ==
    IF k = ParsedTokens THEN r = Len(ParsedRecords) + 1
    ELSE IF r > Len(ParsedRecords) THEN FALSE
    ELSE LET rec == ParsedRecords[r]
             e == ExplicitValues(rec)
         IN  /\ rec.argument = meta_args[k + 1]
             /\ k + 1 + e <= ParsedTokens
             /\ \A n \in 1..e : rec.values[n] = meta_args[k + 1 + n].modified.text
             /\ Covers(k + 1 + e, r + 1)

\* C27: when the parser returns, the tokens before the terminator are, in
\* order, the origin of one record each or the explicit values of the record
\* before them, every token once; so the records and the explicit values
\* together are as many as those tokens.
C27_TokensUsedOnce ==
    pc = "done"
      => /\ Covers(0, 1)
         /\ Len(ParsedRecords) + ExplicitTotal(ParsedRecords) = ParsedTokens

\* `-xyn v --name`: four tokens from the first argument, of which -n takes v
\* as its value, and --name, which gets no value.
C27_Witness ==
    /\ pc = "done"
    /\ args = << <<"-", "x", "y", "n">>, <<"v">>, <<"-", "-", "n", "a", "m", "e">> >>
    /\ Len(forest.opt[Opt.name].parameters) = 1
    /\ ParsedTokens = 5
    /\ Len(ParsedRecords) = 4
    /\ ParsedRecords[3].values = << <<"v">> >>

(***************************************************************************)
(* Squiggles of the legacy records                                         *)
(***************************************************************************)
\* Long, short and combined short options, switches, arguments with a value
\* after '=' or ':', a regular argument, a bare hyphen and the terminator.
RangePool ==
    { <<"-", "-", "n", "a", "m", "e", "=", "v">>, <<"-", "x", "y", "=", "v">>,
      <<"/", "n", "a", "m", "e", ":", "v">>, <<"/", "x">>,
      <<"-", "x", "y", "n">>, <<"v">>, <<"-">>, DoubleHyphen }

InitRanges ==
    Called(RangePool, { Forest(<<>>, <<>>), Forest(<< <<"p">> >>, <<>>) }, {TRUE})

SpecRanges == InitRanges /\ [][Next]_vars

\* The part of the text the squiggle is under.
Underlined(squiggled) ==
    SubSeq(squiggled.text, squiggled.position + 1,
           squiggled.position + squiggled.size)

\* C28: in every record original.text is one of the raw arguments, the
\* squiggle of original lies inside it, and it is under the same characters
\* as the squiggle of modified, whatever kind of token the record is for.
C28_SquiggleUnderName ==
    \A k \in 1..Len(result) :
        /\ \E n \in 1..Len(args) : args[n] = result[k].argument.original.text
        /\ result[k].argument.original.position + result[k].argument.original.size
              <= Len(result[k].argument.original.text)
        /\ result[k].argument.modified.position + result[k].argument.modified.size
              <= Len(result[k].argument.modified.text)
        /\ Underlined(result[k].argument.original) = Underlined(result[k].argument.modified)

\* `--name=v -xy=v`: the record of --name underlines `name` in `--name=v`,
\* and the record of -y underlines the third character of `-xy=v`.
C28_Witness ==
    /\ pc = "done"
    /\ args = << <<"-", "-", "n", "a", "m", "e", "=", "v">>, <<"-", "x", "y", "=", "v">> >>
    /\ Len(result) >= 3
    /\ result[1].argument.original = squiggled_text(args[1], 2, 4)
    /\ result[1].argument.modified.text = <<"-", "-", "n", "a", "m", "e">>
    /\ \E k \in 2..Len(result) :
          /\ result[k].argument.original = squiggled_text(args[2], 2, 1)
          /\ result[k].argument.modified = squiggled_text(<<"-", "y">>, 1, 1)

(***************************************************************************)
(* wrap_string of the help builder                                         *)
(***************************************************************************)
MaxText == 4

MaxWidth == 3

\* The lines vector is followed up to this length.
MaxLines == 6

\* "\n\r\v"; a vertical tab cannot be written in a string here.
newlines == {"\n", "\r"}

\* " \t\r\n\f\v\b"; likewise without the vertical tab and the backspace.
delims == {" ", "\t", "\r", "\n", "\f"}

\* std::string_view::find_first_of(chars): zero-based, npos if none.
find_first_of_any(str, chars) ==
    LET hits == {k \in 1..Len(str) : str[k] \in chars}
    IN  IF hits = {} THEN npos
        ELSE (CHOOSE k \in hits : \A h \in hits : k <= h) - 1

\* std::string_view::find_last_of(chars): zero-based, npos if none.
find_last_of(str, chars) ==
    LET hits == {k \in 1..Len(str) : str[k] \in chars}
    IN  IF hits = {} THEN npos
        ELSE (CHOOSE k \in hits : \A h \in hits : k >= h) - 1

min(a, b) == IF a < b THEN a ELSE b

\* One pass of the while loop: the line cut off and what is left of string.
wrap_line(str, w) ==
    LET part == substr_n(str, 0, w)
        first == find_first_of_any(part, newlines)
        found == IF first /= npos THEN first ELSE find_last_of(part, delims)
        delim_found == found /= npos
        pos == IF delim_found THEN found ELSE w
    IN  [line |-> substr_n(str, 0, pos),
         rest |-> substr(str, min(pos + (IF delim_found THEN 1 ELSE 0), Len(str)))]

Texts == UNION { [1..n -> {"a", " ", "\n"}] : n \in 0..MaxText }

\* build_description calls wrap_string(description, description_width).
InitWrap ==
    /\ string \in Texts
    /\ width \in 0..MaxWidth
    /\ lines = <<>>
    /\ pc = "wrap"
    /\ args = <<>>
    /\ forest = Forest(<<>>, <<>>)
    /\ switch_ins = FALSE
    /\ raised = "none"
    /\ meta_args_1 = <<>>
    /\ meta_args_2 = <<>>
    /\ meta_args = <<>>
    /\ current_subcommand = nullptr
    /\ result = <<>>
    /\ i = 0
    /\ cmd_line = <<>>

\* while (string.size() > width) { ... }
WrapLine ==
    /\ pc = "wrap"
    /\ Len(string) > width
    /\ Len(lines) < MaxLines
    /\ lines' = Append(lines, wrap_line(string, width).line)
    /\ string' = wrap_line(string, width).rest
    /\ UNCHANGED <<width, pc, cmd_line, args, forest, switch_ins, raised,
                   meta_args_1, meta_args_2, meta_args, current_subcommand,
                   result, i>>

\* if (!string.empty()) lines.emplace_back(string); return lines;
WrapRest ==
    /\ pc = "wrap"
    /\ Len(string) <= width
    /\ lines' = IF string /= <<>> THEN Append(lines, string) ELSE lines
    /\ pc' = "wrapped"
    /\ UNCHANGED <<string, width, cmd_line, args, forest, switch_ins, raised,
                   meta_args_1, meta_args_2, meta_args, current_subcommand,
                   result, i>>

WrapNext ==
    \/ WrapLine
    \/ WrapRest

SpecWrap == InitWrap /\ [][WrapNext]_vars

\* C30: every pass of the word-wrap loop, for every description and every
\* width from 0 up, leaves the remaining description shorter than it found
\* it, so that the loop ends.
C30_EveryPassShortens ==
    [][WrapLine => Len(string') < Len(string)]_vars

====
